---- MODULE Spec2Model ----
(***************************************************************************)
(* Model of the ForBill wallet ledger (app/services/wallet.py,             *)
(* app/crud/user.py), the Payrant payment webhook                          *)
(* (app/api/webhooks/payrant.py) and the purchase workflows                *)
(* (app/api/webhooks/whatsapp.py).                                         *)
(*                                                                         *)
(* Money is a Python float (models/user.py: wallet_balance = Column(Float),*)
(* models/transaction.py: amount = Column(Float)), so balances and amounts *)
(* are IEEE-754 binary64 values here: a sign, a 53-bit significand (a      *)
(* sequence of 15-bit limbs, lowest first) and a binary exponent, with     *)
(* round-to-nearest-even addition and subtraction.                         *)
(***************************************************************************)
EXTENDS Integers, Sequences, FiniteSets, TLC

\* ------------------------------------------------------------------------
\* Natural numbers of any size as sequences of 15-bit limbs, least significant
\* limb first, no high zero limbs; <<>> is zero.
\* ------------------------------------------------------------------------

\* Width of the significand of a Python float (Column(Float) is a double).
MantBits == 53

Base == 2^15

RECURSIVE Nat2Limbs(_)
Nat2Limbs(n) == IF n = 0 THEN <<>> ELSE <<n % Base>> \o Nat2Limbs(n \div Base)

Zeros(k) == [i \in 1..k |-> 0]

RECURSIVE Trim(_)
Trim(a) ==
  IF a = <<>> THEN <<>>
  ELSE IF a[Len(a)] # 0 THEN a
  ELSE Trim(SubSeq(a, 1, Len(a) - 1))

Limb(a, i) == IF i >= 1 /\ i <= Len(a) THEN a[i] ELSE 0

\* Number of bits of a limb, and of a trimmed limb sequence.
LimbLen(x) == IF x = 0 THEN 0 ELSE CHOOSE k \in 1..15 : 2^(k - 1) <= x /\ x < 2^k

NBits(a) == IF a = <<>> THEN 0 ELSE 15 * (Len(a) - 1) + LimbLen(a[Len(a)])

\* a + b + c from limb i upwards (c is the carry into limb i).
RECURSIVE LAddFrom(_, _, _, _)
LAddFrom(a, b, i, c) ==
  IF i > Len(a) /\ i > Len(b)
  THEN IF c = 1 THEN <<1>> ELSE <<>>
  ELSE LET s == Limb(a, i) + Limb(b, i) + c
       IN  <<s % Base>> \o LAddFrom(a, b, i + 1, s \div Base)

LAdd(a, b) == LAddFrom(a, b, 1, 0)

\* a - b - c from limb i upwards, for a >= b (c is the borrow).
RECURSIVE LSubFrom(_, _, _, _)
LSubFrom(a, b, i, c) ==
  IF i > Len(a) THEN <<>>
  ELSE LET d == Limb(a, i) - Limb(b, i) - c
       IN  <<(d + Base) % Base>> \o LSubFrom(a, b, i + 1, IF d < 0 THEN 1 ELSE 0)

LSub(a, b) == Trim(LSubFrom(a, b, 1, 0))

\* a < b on trimmed limb sequences, comparing from limb i downwards.
RECURSIVE LLessFrom(_, _, _)
LLessFrom(a, b, i) ==
  IF i = 0 THEN FALSE
  ELSE IF a[i] # b[i] THEN a[i] < b[i]
  ELSE LLessFrom(a, b, i - 1)

LLess(a, b) ==
  IF Len(a) # Len(b) THEN Len(a) < Len(b) ELSE LLessFrom(a, b, Len(a))

\* a * 2^k.
LShl(a, k) ==
  LET r == k % 15
      p == 2^r
  IN  IF a = <<>> THEN <<>>
      ELSE Trim(Zeros(k \div 15) \o
                [i \in 1..(Len(a) + 1) |->
                   ((Limb(a, i) * p) % Base) + ((Limb(a, i - 1) * p) \div Base)])

\* a \div 2^k.
LShr(a, k) ==
  LET q == k \div 15
      r == k % 15
      p == 2^r
  IN  IF Len(a) <= q THEN <<>>
      ELSE Trim([i \in 1..(Len(a) - q) |->
                   (Limb(a, q + i) \div p) + (Limb(a, q + i + 1) % p) * 2^(15 - r)])

\* Bit j of a (bit 0 is the lowest), and whether a has a 1 among bits 0..k-1.
LBitAt(a, j) == (Limb(a, (j \div 15) + 1) \div 2^(j % 15)) % 2

LLowNonzero(a, k) ==
  \/ \E i \in 1..(k \div 15) : Limb(a, i) # 0
  \/ Limb(a, (k \div 15) + 1) % 2^(k % 15) # 0

\* Quotient and remainder of the limb sequence n divided by the small number
\* d, from limb i downwards with running remainder r.
RECURSIVE LDivFrom(_, _, _, _)
LDivFrom(n, d, i, r) ==
  IF i = 0 THEN [q |-> <<>>, r |-> r]
  ELSE LET t    == r * Base + n[i]
           rest == LDivFrom(n, d, i - 1, t % d)
       IN  [q |-> rest.q \o <<t \div d>>, r |-> rest.r]

\* ------------------------------------------------------------------------
\* Python floats: [neg, m, e] is (-1)^neg * m * 2^e with m of MantBits bits;
\* zero has m = <<>>.
\* ------------------------------------------------------------------------

FZero == [neg |-> FALSE, m |-> <<>>, e |-> 0]

\* The float nearest to (x * 2^e), ties to even; sticky says that the exact
\* value has further nonzero bits below x's lowest one.
FRound(neg, limbs, e, sticky) ==
  LET x == Trim(limbs)
      n == NBits(x)
  IN  IF n = 0 THEN FZero
      ELSE IF n <= MantBits
      THEN [neg |-> neg, m |-> LShl(x, MantBits - n), e |-> e - (MantBits - n)]
      ELSE LET k     == n - MantBits
               kept  == LShr(x, k)
               guard == LBitAt(x, k - 1)
               low   == sticky \/ LLowNonzero(x, k - 1)
               up    == guard = 1 /\ (low \/ kept[1] % 2 = 1)
               r     == IF up THEN LAdd(kept, <<1>>) ELSE kept
           IN  IF NBits(r) > MantBits
               THEN [neg |-> neg, m |-> LShr(r, 1), e |-> e + k + 1]
               ELSE [neg |-> neg, m |-> r, e |-> e + k]

\* float("n/100"): the float a decimal amount of n hundredths parses to
\* (float(payload.get("amount")), a JSON number, a literal such as 300.0).
FromCents(n) ==
  IF n = 0 THEN FZero
  ELSE LET num == LShl(Nat2Limbs(n), 60)
           d   == LDivFrom(num, 100, Len(num), 0)
       IN  FRound(FALSE, d.q, 0 - 60, d.r # 0)

FNeg(x) == IF x.m = <<>> THEN x ELSE [x EXCEPT !.neg = ~x.neg]

\* |x| < |y|: significands have the same width, so the exponent decides first.
FMagLess(x, y) ==
  IF y.m = <<>> THEN FALSE
  ELSE IF x.m = <<>> THEN TRUE
  ELSE IF x.e # y.e THEN x.e < y.e
  ELSE LLess(x.m, y.m)

\* x < y
FLess(x, y) ==
  IF x.neg /\ ~y.neg THEN x.m # <<>> \/ y.m # <<>>
  ELSE IF ~x.neg /\ y.neg THEN FALSE
  ELSE IF x.neg THEN FMagLess(y, x)
  ELSE FMagLess(x, y)

FLeq(x, y) == ~FLess(y, x)

\* x + y, rounded to nearest even (Python's float +).
FAdd(x, y) ==
  IF x.m = <<>> THEN y
  ELSE IF y.m = <<>> THEN x
  ELSE LET e0 == IF x.e < y.e THEN x.e ELSE y.e
           X  == LShl(x.m, x.e - e0)
           Y  == LShl(y.m, y.e - e0)
       IN  IF x.neg = y.neg THEN FRound(x.neg, LAdd(X, Y), e0, FALSE)
           ELSE IF LLess(X, Y) THEN FRound(y.neg, LSub(Y, X), e0, FALSE)
           ELSE FRound(x.neg, LSub(X, Y), e0, FALSE)

\* x - y (Python's float -).
FSub(x, y) == FAdd(x, FNeg(y))

\* ------------------------------------------------------------------------
\* The persistent store and the ledger operations.
\* ------------------------------------------------------------------------

\* Rows of the users table, and the ids callers name (3 is no user's id).
Users == {1, 2}
NoUser == 3

\* Amounts callers pass: a plan price, a funding amount, and an invalid one.
Price == FromCents(4999)
Funding == FromCents(12020)
Large == FromCents(20000)
CreditAmounts == {FZero, Funding}
DebitAmounts == {FZero, Price, Funding, Large}

\* The calls made: user 1 with every amount, and one call for a user id
\* that does not exist.
CreditCalls == ({1} \X CreditAmounts) \cup {<<NoUser, Funding>>}
DebitCalls == ({1} \X DebitAmounts) \cup {<<NoUser, Price>>}

\* Credits that would take a balance above this many naira are left out.
MaxBalance == 250

\* Most rows the transactions table holds in the model.
MaxTx == 2

\* References: those the payment gateway sends, those generate_reference
\* makes, and the absent one (Python's None).
NoRef == <<"none", 0>>
Refs == {<<"ext", 1>>, <<"ext", 2>>}
RefInputs == Refs \cup {NoRef}

\* Values of the provider_response (Text) and provider_reference columns.
NoText == <<"none", "">>

\* TransactionStatus; no code path sets "processing".
Statuses == {"pending", "completed", "failed", "reversed"}

\* The statuses callers hand to update_transaction_status directly: the
\* workflows COMPLETED, the tests PENDING.  FAILED comes from the
\* failed-payment webhook and REVERSED from refund_transaction.
StatusUpdates == {"pending", "completed"}

VARIABLES
  balance,   \* users.wallet_balance of every user, as committed
  txs,       \* the transactions table: row i has id i
  last,      \* the last ledger call or webhook: what was asked, what came
             \* back, and the balances it found
  flows,     \* the purchase workflows in flight
  users,     \* the users table without its balance column: row i has id i
  prefs,     \* the user_preferences table
  reply,     \* what the last get_or_create call or webhook endpoint returned
  query,     \* the last call of a function that writes nothing: its
             \* arguments and what it returned
  tasks      \* the background tasks the message handler created, each with
             \* the User instance it was given

vars == <<balance, txs, last, flows, users, prefs, reply, query, tasks>>

\* The tables and the answers that the ledger and the workflows leave alone.
registry == <<users, prefs, reply, query, tasks>>

\* generate_reference: a timestamp and six random digits; distinct per row.
GenerateReference(txl) == <<"gen", Len(txl) + 1>>

\* db.query(Transaction).filter(Transaction.reference == reference).first():
\* the id of the row, 0 for None.
GetTransactionByReference(txl, reference) ==
  IF \E i \in 1..Len(txl) : txl[i].reference = reference
  THEN CHOOSE i \in 1..Len(txl) :
         /\ txl[i].reference = reference
         /\ \A j \in 1..(i - 1) : txl[j].reference # reference
  ELSE 0

Transaction(u, type, a, status, reference, metadata) ==
  [user |-> u, type |-> type, amount |-> a, status |-> status,
   reference |-> reference, provider_response |-> metadata,
   provider_reference |-> NoText]

\* What a call raised: NoError, or the exception.
NoError == [kind |-> "none"]
Error(kind) == [kind |-> kind]

\* The ValueError debit_wallet raises when the balance is short: its message
\* names the available balance and the required amount.
InsufficientBalance(available, required) ==
  [kind |-> "insufficient balance", available |-> available, required |-> required]

\* The outcome of a ledger call: what it raised, the transaction it returned
\* (0 for none), and the store it leaves committed.
Outcome(err, id, bal, txl) == [err |-> err, tx |-> id, balance |-> bal, txs |-> txl]

Raised(err, bal, txl) == Outcome(err, 0, bal, txl)

\* user.wallet_balance += amount / -= amount
AddToBalance(b, a) == FAdd(b, a)

\* A subtraction that takes the amount twice.
SubtractFromBalance_Twice(b, a) == FSub(FSub(b, a), a)

SubtractFromBalance(b, a) == FSub(b, a)

\* update_user_balance(db, user_id, amount, operation), on the balance `seen`
\* that the session holds for the user: the new balance, or the error raised.
UpdateUserBalance(seen, u, a, operation) ==
  IF u \notin Users THEN [err |-> Error("user not found"), value |-> seen]
  ELSE IF operation = "add" THEN [err |-> NoError, value |-> AddToBalance(seen, a)]
  ELSE IF operation = "subtract"
  THEN IF FLess(seen, a)
       THEN [err |-> InsufficientBalance(seen, a), value |-> seen]
       ELSE [err |-> NoError, value |-> SubtractFromBalance(seen, a)]
  ELSE [err |-> Error("invalid operation"), value |-> seen]

\* The reference column is unique: a commit that inserts a second row with
\* a reference already present fails and commits nothing.
UniqueReference(txl, reference) ==
  \A i \in 1..Len(txl) : txl[i].reference # reference

\* credit_wallet without the test of the amount.
CreditWallet_Unchecked(bal, txl, seen, u, a, reference, metadata) ==
  IF u \notin Users THEN Raised(Error("user not found"), bal, txl)
  ELSE Outcome(NoError, Len(txl) + 1,
               [bal EXCEPT ![u] = AddToBalance(seen, a)],
               Append(txl, Transaction(u, "wallet_funding", a, "completed",
                                       GenerateReference(txl), metadata)))

\* WalletService.credit_wallet, with `seen` the balance the session holds.
CreditWallet(bal, txl, seen, u, a, reference, metadata) ==
  IF FLeq(a, FZero) THEN Raised(Error("amount must be positive"), bal, txl)
  ELSE IF u \notin Users THEN Raised(Error("user not found"), bal, txl)
  ELSE LET ref == IF reference = NoRef THEN GenerateReference(txl) ELSE reference
           upd == UpdateUserBalance(seen, u, a, "add")
       IN  IF upd.err # NoError THEN Raised(upd.err, bal, txl)
           ELSE IF ~UniqueReference(txl, ref)
           THEN Raised(Error("integrity error"), bal, txl)
           ELSE Outcome(NoError, Len(txl) + 1,
                        [bal EXCEPT ![u] = upd.value],
                        Append(txl, Transaction(u, "wallet_funding", a, "completed",
                                                ref, metadata)))

\* debit_wallet without either balance check.
DebitWallet_Unchecked(bal, txl, seen, u, a, type, reference, metadata) ==
  IF FLeq(a, FZero) THEN Raised(Error("amount must be positive"), bal, txl)
  ELSE IF u \notin Users THEN Raised(Error("user not found"), bal, txl)
  ELSE Outcome(NoError, Len(txl) + 1,
               [bal EXCEPT ![u] = SubtractFromBalance(seen, a)],
               Append(txl, Transaction(u, type, a, "pending",
                                       GenerateReference(txl), metadata)))

\* debit_wallet checking the balance the session holds but subtracting from
\* the stored one (UPDATE ... SET wallet_balance = wallet_balance - :amount).
DebitWallet_RelativeWrite(bal, txl, seen, u, a, type, reference, metadata) ==
  IF FLeq(a, FZero) THEN Raised(Error("amount must be positive"), bal, txl)
  ELSE IF u \notin Users THEN Raised(Error("user not found"), bal, txl)
  ELSE IF FLess(seen, a) THEN Raised(InsufficientBalance(seen, a), bal, txl)
  ELSE Outcome(NoError, Len(txl) + 1,
               [bal EXCEPT ![u] = SubtractFromBalance(bal[u], a)],
               Append(txl, Transaction(u, type, a, "pending",
                                       GenerateReference(txl), metadata)))

\* debit_wallet taking the amount from the balance of every user.
DebitWallet_AllUsers(bal, txl, seen, u, a, type, reference, metadata) ==
  IF FLeq(a, FZero) THEN Raised(Error("amount must be positive"), bal, txl)
  ELSE IF u \notin Users THEN Raised(Error("user not found"), bal, txl)
  ELSE IF FLess(seen, a) THEN Raised(InsufficientBalance(seen, a), bal, txl)
  ELSE Outcome(NoError, Len(txl) + 1,
               [v \in DOMAIN bal |-> SubtractFromBalance(bal[v], a)],
               Append(txl, Transaction(u, type, a, "pending",
                                       GenerateReference(txl), metadata)))

\* WalletService.debit_wallet, with `seen` the balance the session holds.
DebitWallet(bal, txl, seen, u, a, type, reference, metadata) ==
  IF FLeq(a, FZero) THEN Raised(Error("amount must be positive"), bal, txl)
  ELSE IF u \notin Users THEN Raised(Error("user not found"), bal, txl)
  ELSE IF FLess(seen, a) THEN Raised(InsufficientBalance(seen, a), bal, txl)
  ELSE LET ref == IF reference = NoRef THEN GenerateReference(txl) ELSE reference
           upd == UpdateUserBalance(seen, u, a, "subtract")
       IN  IF upd.err # NoError THEN Raised(upd.err, bal, txl)
           ELSE IF ~UniqueReference(txl, ref)
           THEN Raised(Error("integrity error"), bal, txl)
           ELSE Outcome(NoError, Len(txl) + 1,
                        [bal EXCEPT ![u] = upd.value],
                        Append(txl, Transaction(u, type, a, "pending", ref, metadata)))

\* WalletService.update_transaction_status
UpdateTransactionStatus(bal, txl, id, status, provider_response, provider_reference) ==
  IF id \notin 1..Len(txl) THEN Raised(Error("transaction not found"), bal, txl)
  ELSE Outcome(NoError, id, bal,
         [txl EXCEPT ![id] =
            [@ EXCEPT !.status = status,
                      !.provider_response =
                         IF provider_response # NoText THEN provider_response ELSE @,
                      !.provider_reference =
                         IF provider_reference # NoText THEN provider_reference ELSE @]])

\* refund_transaction without the test for an already reversed transaction.
RefundTransaction_NoGuard(bal, txl, id, reason) ==
  IF id \notin 1..Len(txl) THEN Outcome(NoError, 0, bal, txl)
  ELSE LET t == txl[id]
       IN  Outcome(NoError, id,
                   [bal EXCEPT ![t.user] = AddToBalance(bal[t.user], t.amount)],
                   [txl EXCEPT ![id] =
                      [@ EXCEPT !.status = "reversed",
                                !.provider_response = <<"refunded", reason>>]])

\* refund_transaction taking the refunded row out of the table.
RefundTransaction_Deleting(bal, txl, id, reason) ==
  IF id \notin 1..Len(txl) THEN Outcome(NoError, 0, bal, txl)
  ELSE IF txl[id].status = "reversed" THEN Outcome(NoError, 0, bal, txl)
  ELSE Outcome(NoError, id,
               [bal EXCEPT ![txl[id].user] = AddToBalance(@, txl[id].amount)],
               SubSeq(txl, 1, id - 1) \o SubSeq(txl, id + 1, Len(txl)))

\* WalletService.refund_transaction: returns the transaction (tx = id) or
\* None (tx = 0); it raises nothing.
RefundTransaction(bal, txl, id, reason) ==
  IF id \notin 1..Len(txl) THEN Outcome(NoError, 0, bal, txl)
  ELSE IF txl[id].status = "reversed" THEN Outcome(NoError, 0, bal, txl)
  ELSE LET t   == txl[id]
           upd == UpdateUserBalance(bal[t.user], t.user, t.amount, "add")
       IN  IF upd.err # NoError THEN Outcome(NoError, 0, bal, txl)
           ELSE Outcome(NoError, id,
                        [bal EXCEPT ![t.user] = upd.value],
                        [txl EXCEPT ![id] =
                           [@ EXCEPT !.status = "reversed",
                                     !.provider_response = <<"refunded", reason>>]])

\* ------------------------------------------------------------------------
\* The Payrant webhook (api/webhooks/payrant.py).
\* ------------------------------------------------------------------------

\* The characters \d matches and \D does not, with their values.
DigitValue ==
  [c \in {"0", "1", "2", "3", "4", "5", "6", "7", "8", "9"} |->
     CASE c = "0" -> 0 [] c = "1" -> 1 [] c = "2" -> 2 [] c = "3" -> 3
       [] c = "4" -> 4 [] c = "5" -> 5 [] c = "6" -> 6 [] c = "7" -> 7
       [] c = "8" -> 8 [] c = "9" -> 9]

\* str.isdigit
IsDigit(s) ==
  s # "" /\ \A i \in 1..Len(s) : SubSeq(s, i, i) \in DOMAIN DigitValue

\* int() of a run of digits.
RECURSIVE ToInt(_)
ToInt(digits) ==
  IF digits = "" THEN 0
  ELSE DigitValue[SubSeq(digits, 1, 1)] * 10 ^ (Len(digits) - 1)
         + ToInt(Tail(digits))

\* The account_reference of a user's virtual account:
\* f"FORBILL-{user.id}-{user.phone_number[-4:]}".
Forbill(u) == "FORBILL-" \o ToString(u) \o "-000" \o ToString(u)

\* No account_reference in the payload (None), or an empty one.
NoAccount == ""

\* account_reference.startswith("FORBILL-") finding the prefix everywhere.
StartsWithForbill_Always(account_reference) == TRUE

\* account_reference and account_reference.startswith("FORBILL-")
StartsWithForbill(account_reference) ==
  /\ Len(account_reference) >= 8
  /\ SubSeq(account_reference, 1, 8) = "FORBILL-"

\* account_reference.split("-")[1]; "" when the split has one part.
UserIdPart(account_reference) ==
  LET dashes == {i \in 1..Len(account_reference) :
                   SubSeq(account_reference, i, i) = "-"}
      first  == CHOOSE i \in dashes : \A j \in dashes : i <= j
      later  == {i \in dashes : i > first} \cup {Len(account_reference) + 1}
  IN  IF dashes = {} THEN ""
      ELSE SubSeq(account_reference, first + 1,
                  (CHOOSE i \in later : \A j \in later : i <= j) - 1)

\* The deliveries made: a payment to user 1 under every reference, and one
\* each with an amount of zero, an unknown user and a foreign account.
Deliveries ==
  ({Funding} \X RefInputs \X {Forbill(1)})
    \cup {<<FZero, <<"ext", 1>>, Forbill(1)>>,
          <<Funding, <<"ext", 1>>, Forbill(NoUser)>>,
          <<Funding, <<"ext", 1>>, "OTHER-1-0001">>}

\* The account references of the deliveries to either user: the users' own,
\* one of a user id nobody has, none, and references without the prefix,
\* with another prefix, and with something else than digits for the id.
Accounts ==
  {Forbill(u) : u \in Users \cup {NoUser}}
    \cup {NoAccount, "1-0001", "OTHER-1-0001", "forbill-1-0001",
          "XFORBILL-1-0001", "FORBILL", "FORBILL-", "FORBILL-one-0001"}

\* The deliveries to either user: with an amount above, at and below zero.
AccountDeliveries == {Funding, FZero, FNeg(Funding)} \X Refs \X Accounts

\* handle_successful_payment crediting without the gateway's reference.
PaymentReference_Dropped(payload) == NoRef

\* The reference handle_successful_payment hands to credit_wallet.
PaymentReference(payload) == payload.reference

\* handle_successful_payment: every exception is logged and swallowed.
HandleSuccessfulPayment(bal, txl, payload) ==
  LET amount == payload.amount
      part   == UserIdPart(payload.account)
      u      == ToInt(part)
  IN  IF FLeq(amount, FZero) THEN Raised(Error("invalid amount"), bal, txl)
      ELSE IF ~StartsWithForbill(payload.account)
      THEN Raised(Error("ignored"), bal, txl)
      ELSE IF ~IsDigit(part) THEN Raised(Error("invalid literal for int"), bal, txl)
      ELSE IF u \notin Users THEN Raised(Error("user not found"), bal, txl)
      ELSE IF GetTransactionByReference(txl, payload.reference) # 0
      THEN Raised(Error("already processed"), bal, txl)
      ELSE CreditWallet(bal, txl, bal[u], u, amount, PaymentReference(payload),
                        <<"payload", payload>>)

\* handle_failed_payment
HandleFailedPayment(bal, txl, payload) ==
  LET id == GetTransactionByReference(txl, payload.reference)
  IN  IF id # 0
      THEN UpdateTransactionStatus(bal, txl, id, "failed",
                                   <<"reason", payload.reason>>, NoText)
      ELSE Raised(Error("no transaction"), bal, txl)

\* ------------------------------------------------------------------------
\* Ledger calls and webhook deliveries, one at a time, each in a session
\* that reads the committed store.
\* ------------------------------------------------------------------------

Seen(u) == IF u \in Users THEN balance[u] ELSE FZero

BalanceCap == FromCents(100 * MaxBalance)

WithinBounds(bal) == \A u \in Users : FLeq(bal[u], BalanceCap)

Commit(call, outcome) ==
  LET out == outcome
  IN  /\ WithinBounds(out.balance)
      /\ balance' = out.balance
      /\ txs' = out.txs
      /\ last' = [call |-> call, err |-> out.err, tx |-> out.tx, before |-> balance]

Credit ==
  \E c \in CreditCalls :
    LET u == c[1]
        a == c[2]
    IN  /\ Len(txs) < MaxTx
        /\ Commit([op |-> "credit", user |-> u, amount |-> a],
                  CreditWallet(balance, txs, Seen(u), u, a, NoRef, NoText))
        /\ UNCHANGED <<flows, registry>>

Debit ==
  \E c \in DebitCalls :
    LET u == c[1]
        a == c[2]
    IN  /\ Len(txs) < MaxTx
        /\ Commit([op |-> "debit", user |-> u, amount |-> a],
                  DebitWallet(balance, txs, Seen(u), u, a, "airtime", NoRef, NoText))
        /\ UNCHANGED <<flows, registry>>

UpdateStatus ==
  \E id \in 1..MaxTx, s \in StatusUpdates :
    /\ Commit([op |-> "update_status", tx |-> id, status |-> s],
              UpdateTransactionStatus(balance, txs, id, s, <<"set", "response">>,
                                      NoText))
    /\ UNCHANGED <<flows, registry>>

Refund ==
  \E id \in 1..MaxTx :
    /\ Commit([op |-> "refund", tx |-> id],
              RefundTransaction(balance, txs, id, "failed"))
    /\ UNCHANGED <<flows, registry>>

\* A delivery of the payment.success event.
Deliver(deliveries) ==
  \E d \in deliveries :
    LET payload == [amount |-> d[1], reference |-> d[2], account |-> d[3]]
    IN  /\ Len(txs) < MaxTx \/ GetTransactionByReference(txs, d[2]) # 0
        /\ Commit([op |-> "payment_success", payload |-> payload],
                  HandleSuccessfulPayment(balance, txs, payload))
        /\ UNCHANGED <<flows, registry>>

PaymentSuccess == Deliver(Deliveries)

PaymentFailed ==
  \E r \in Refs :
    LET payload == [reference |-> r, reason |-> "declined"]
    IN  /\ Commit([op |-> "payment_failed", payload |-> payload],
                  HandleFailedPayment(balance, txs, payload))
        /\ UNCHANGED <<flows, registry>>

\* ------------------------------------------------------------------------
\* The purchase workflows (api/webhooks/whatsapp.py): each runs in a session
\* of its own and gives way to the others at every await.
\* ------------------------------------------------------------------------

Flows == {1, 2}

\* Phone numbers that send purchase messages: user 1's, and an unregistered one.
Callers == {1, NoUser}

\* The vendor's price of a data plan.
PlanPrice == Price

\* A whole number of naira, as the parser's int enters the float arithmetic.
Naira(n) == FromCents(100 * n)

\* The amount group a command pattern matched: absent, or a run of digits.
NoGroup == <<"none", 0>>
AmountGroups == {NoGroup, <<"digits", 20>>, <<"digits", 100>>}

\* CommandParser._parse_airtime: the "amount" and "error" keys of the result
\* (amount 0 and error "" stand for an absent key).
ParseAirtime(group) ==
  IF group = NoGroup THEN [amount |-> 0, error |-> ""]
  ELSE IF group[2] < 50 THEN [amount |-> 0, error |-> "Amount too low"]
  ELSE IF group[2] > 50000 THEN [amount |-> 0, error |-> "Amount too high"]
  ELSE [amount |-> group[2], error |-> ""]

\* CommandParser._parse_electricity: the amount is kept from 100 upwards and
\* no error is ever set.
ParseElectricity(group) ==
  IF group # NoGroup /\ group[2] >= 100
  THEN [amount |-> group[2], error |-> ""]
  ELSE [amount |-> 0, error |-> ""]

\* The parsed commands the purchase handlers are called with.
Requests ==
  {[kind |-> "airtime", group |-> g] : g \in AmountGroups}
    \cup {[kind |-> "data", group |-> NoGroup],
          [kind |-> "electricity", group |-> <<"digits", 100>>],
          [kind |-> "cable", group |-> NoGroup]}

\* What the vendor's endpoint does with a purchase request.
Responses == {"ok", "declined", "http error", "timeout"}

\* get_user_by_phone: the user's id, 0 for None.
GetUserByPhone(from) == IF from \in Users THEN from ELSE 0

\* check_sufficient_balance answering that every balance suffices.
CheckSufficientBalance_Always(seen, required) ==
  [has_sufficient_balance |-> TRUE,
   current_balance |-> seen,
   required_amount |-> required,
   shortfall |-> FZero]

\* WalletService.check_sufficient_balance on the balance the session holds.
CheckSufficientBalance(seen, required) ==
  [has_sufficient_balance |-> FLeq(required, seen),
   current_balance |-> seen,
   required_amount |-> required,
   shortfall |-> IF FLess(FZero, FSub(required, seen))
                 THEN FSub(required, seen) ELSE FZero]

\* TopUpMateService._make_request: an HTTP error status and every other
\* exception (a timeout among them) come back as a failure result.
MakeRequest(response) ==
  IF response = "http error" THEN [success |-> FALSE, message |-> "API error"]
  ELSE IF response = "timeout" THEN [success |-> FALSE, message |-> "Service unavailable"]
  ELSE IF response = "ok"
  THEN [success |-> TRUE, message |-> "ok", api_response |-> <<"api", "vendor ref">>]
  ELSE [success |-> FALSE, message |-> "declined"]

\* int(amount) of a float.
RECURSIVE Limbs2Nat(_)
Limbs2Nat(a) == IF a = <<>> THEN 0 ELSE a[1] + Base * Limbs2Nat(Tail(a))

Truncate(x) ==
  LET n == Limbs2Nat(IF x.e < 0 THEN LShr(x.m, 0 - x.e) ELSE LShl(x.m, x.e))
  IN  IF x.neg THEN 0 - n ELSE n

\* The vendor's id of the plan bought and the meter paid for.
PlanId == "7"
MeterNumber == "45012345678"

\* The request_id of the payload buy_airtime, buy_data and buy_electricity
\* post: f"AIRTIME_{phone_number}_{int(amount)}",
\* f"DATA_{phone_number}_{plan_id}", f"ELECTRICITY_{meter_number}_{int(amount)}".
RequestId(kind, phone_number, amount) ==
  IF kind = "airtime"
  THEN "AIRTIME_" \o phone_number \o "_" \o ToString(Truncate(amount))
  ELSE IF kind = "data" THEN "DATA_" \o phone_number \o "_" \o PlanId
  ELSE "ELECTRICITY_" \o MeterNumber \o "_" \o ToString(Truncate(amount))

MinAirtime == FromCents(5000)
MaxAirtime == FromCents(5000000)

\* TopUpMateService.buy_airtime
BuyAirtime(amount, response) ==
  IF FLess(amount, MinAirtime)
  THEN [success |-> FALSE, message |-> "Minimum airtime amount"]
  ELSE IF FLess(MaxAirtime, amount)
  THEN [success |-> FALSE, message |-> "Maximum airtime amount"]
  ELSE LET result == MakeRequest(response)
       IN  IF result.success
           THEN [success |-> TRUE, message |-> "Airtime purchase successful",
                 provider_reference |-> result.api_response]
           ELSE [success |-> FALSE, message |-> result.message]

\* TopUpMateService.buy_data
BuyData(response) ==
  LET result == MakeRequest(response)
  IN  IF result.success
      THEN [success |-> TRUE, message |-> "Data purchase successful",
            provider_reference |-> result.api_response]
      ELSE [success |-> FALSE, message |-> result.message]

MinElectricity == FromCents(100000)
MaxElectricity == FromCents(10000000)

\* TopUpMateService.buy_electricity
BuyElectricity(amount, response) ==
  IF FLess(amount, MinElectricity)
  THEN [success |-> FALSE, message |-> "Minimum electricity amount"]
  ELSE IF FLess(MaxElectricity, amount)
  THEN [success |-> FALSE, message |-> "Maximum electricity amount"]
  ELSE LET result == MakeRequest(response)
       IN  IF result.success
           THEN [success |-> TRUE, message |-> "Electricity purchase successful",
                 provider_reference |-> result.api_response]
           ELSE [success |-> FALSE, message |-> result.message]

\* A workflow that has not started.  `seen` is the wallet balance its
\* session holds for the user (loaded once, kept until the session commits);
\* `pre` is the committed balance at the moment of its debit; `error` is the
\* parser's error, `verified` the vendor's answer about the meter or smartcard.
Idle ==
  [pc |-> "idle", user |-> 0, kind |-> "none", amount |-> FZero, seen |-> FZero,
   tx |-> 0, pre |-> FZero, vendor |-> "none", fault |-> FALSE, outcome |-> "none",
   error |-> "", verified |-> "none", request_id |-> ""]

Finish(f, outcome) == [f EXCEPT !.pc = "done", !.outcome = outcome]

\* The balance check and what follows it up to the next await.
CheckBalance(f, amount, next) ==
  IF CheckSufficientBalance(f.seen, amount).has_sufficient_balance
  THEN [f EXCEPT !.amount = amount, !.pc = next]
  ELSE Finish([f EXCEPT !.amount = amount], "insufficient")

\* handle_airtime_purchase from the loaded user to its first await.
AirtimeRequest(f, parsed) ==
  IF parsed.amount = 0 THEN Finish(f, "prompt")
  ELSE IF parsed.error # "" THEN Finish(f, "invalid")
  ELSE CheckBalance(f, Naira(parsed.amount), "processing")

\* handle_electricity_payment from the loaded user to its first await (the
\* meter number is given).
ElectricityRequest(f, parsed) ==
  IF parsed.amount = 0 THEN Finish(f, "prompt")
  ELSE CheckBalance(f, Naira(parsed.amount), "verify")

\* The purchase handlers up to their first await: the user is loaded into
\* the session; airtime and electricity requests are checked at once, a data
\* request fetches the plans, a cable request (provider and smartcard number
\* given) has the smartcard verified.
StartPurchase(w) ==
  \E from \in Callers, request \in Requests :
    LET u == GetUserByPhone(from)
        f == [Idle EXCEPT !.user = u, !.kind = request.kind,
                          !.seen = IF u = 0 THEN FZero ELSE balance[u]]
    IN  /\ flows[w].pc = "idle"
        /\ flows' = [flows EXCEPT ![w] =
             IF u = 0 THEN Finish(f, "unregistered")
             ELSE IF request.kind = "airtime"
             THEN LET parsed == ParseAirtime(request.group)
                  IN  AirtimeRequest([f EXCEPT !.error = parsed.error], parsed)
             ELSE IF request.kind = "electricity"
             THEN ElectricityRequest(f, ParseElectricity(request.group))
             ELSE IF request.kind = "cable" THEN [f EXCEPT !.pc = "verify"]
             ELSE [f EXCEPT !.pc = "plans"]]
        /\ UNCHANGED <<balance, txs, last, registry>>

\* verify_meter_number / verify_smartcard return: a failure ends the workflow
\* with a message; after a success the electricity workflow sends its
\* "processing" notice and the cable workflow fetches the packages.
Verify_Unchecked(w) ==
  \E verification \in BOOLEAN :
    /\ flows[w].pc = "verify"
    /\ flows' = [flows EXCEPT ![w] =
         [@ EXCEPT !.verified = IF verification THEN "ok" ELSE "failed",
                   !.pc = IF flows[w].kind = "cable" THEN "packages"
                          ELSE "processing"]]
    /\ UNCHANGED <<balance, txs, last, registry>>

Verify(w) ==
  \E verification \in BOOLEAN :
    /\ flows[w].pc = "verify"
    /\ flows' = [flows EXCEPT ![w] =
         IF ~verification THEN Finish([@ EXCEPT !.verified = "failed"], "unverified")
         ELSE [@ EXCEPT !.verified = "ok",
                        !.pc = IF flows[w].kind = "cable" THEN "packages"
                               ELSE "processing"]]
    /\ UNCHANGED <<balance, txs, last, registry>>

\* handle_cable_subscription from get_cable_packages' return: the packages
\* are listed and the workflow ends; nothing is bought.
FetchPackages(w) ==
  \E fetched \in BOOLEAN :
    /\ flows[w].pc = "packages"
    /\ flows' = [flows EXCEPT ![w] =
         Finish(@, IF fetched THEN "packages" ELSE "no packages")]
    /\ UNCHANGED <<balance, txs, last, registry>>

\* handle_data_purchase from get_data_plans' return to the next await.
FetchPlans(w) ==
  \E fetched \in BOOLEAN :
    /\ flows[w].pc = "plans"
    /\ flows' = [flows EXCEPT ![w] =
         IF fetched THEN CheckBalance(@, PlanPrice, "processing")
         ELSE Finish(@, "no plans")]
    /\ UNCHANGED <<balance, txs, last, registry>>

\* The vendor is called as soon as the "processing" notice returns, with no
\* debit before it.
DebitStep_VendorFirst(w) ==
  \E sent \in BOOLEAN :
    /\ flows[w].pc = "processing"
    /\ flows' = [flows EXCEPT ![w] =
         IF sent THEN [@ EXCEPT !.pc = "vendor"] ELSE Finish(@, "error")]
    /\ UNCHANGED <<balance, txs, last, registry>>

\* From the return of the "processing" notice to the vendor call: the debit,
\* on the balance the session holds, and the commit of the purchase details.
\* A notice that could not be sent, or a debit that raises, ends the workflow
\* in its except clause.
DebitStep(w) ==
  \E sent \in BOOLEAN :
    LET f   == flows[w]
        out == DebitWallet(balance, txs, f.seen, f.user, f.amount, f.kind, NoRef, NoText)
    IN  /\ f.pc = "processing"
        /\ IF sent /\ out.err = NoError
           THEN /\ balance' = out.balance
                /\ txs' = out.txs
                /\ flows' = [flows EXCEPT ![w] =
                     [f EXCEPT !.pc = "vendor", !.tx = out.tx, !.pre = balance[f.user]]]
           ELSE /\ flows' = [flows EXCEPT ![w] = Finish(f, "error")]
                /\ UNCHANGED <<balance, txs>>
        /\ UNCHANGED <<last, registry>>

\* From the vendor call's return to the next await: the status update on
\* success, the refund on failure.  `fault` is a commit the database refuses:
\* update_transaction_status then raises, refund_transaction rolls back and
\* returns None.  `request_id` is the key of the request posted, "" when the
\* amount was turned down before any request.
VendorReturns(w) ==
  \E response \in Responses, fault \in BOOLEAN :
    LET f      == flows[w]
        result == IF f.kind = "airtime" THEN BuyAirtime(f.amount, response)
                  ELSE IF f.kind = "electricity" THEN BuyElectricity(f.amount, response)
                  ELSE BuyData(response)
        out    == IF result.success
                  THEN UpdateTransactionStatus(balance, txs, f.tx, "completed",
                                               <<"result", result.message>>,
                                               result.provider_reference)
                  ELSE RefundTransaction(balance, txs, f.tx, result.message)
        posted == IF f.kind = "airtime" THEN BuyAirtime(f.amount, "ok").success
                  ELSE IF f.kind = "electricity"
                  THEN BuyElectricity(f.amount, "ok").success
                  ELSE TRUE
        g      == [f EXCEPT !.vendor = IF result.success THEN "success" ELSE "failure",
                            !.fault = fault,
                            !.request_id =
                               IF posted
                               THEN RequestId(f.kind, users[f.user].phone_number,
                                              f.amount)
                               ELSE ""]
    IN  /\ f.pc = "vendor"
        /\ IF fault
           THEN /\ UNCHANGED <<balance, txs>>
                /\ flows' = [flows EXCEPT ![w] =
                     IF result.success THEN Finish(g, "error")
                     ELSE [g EXCEPT !.pc = "notify"]]
           ELSE /\ balance' = out.balance
                /\ txs' = out.txs
                /\ flows' = [flows EXCEPT ![w] = [g EXCEPT !.pc = "notify"]]
        /\ UNCHANGED <<last, registry>>

\* The closing message: "successful", or "failed, your wallet has been
\* refunded"; if it cannot be sent the except clause reports an error.
Notify(w) ==
  \E sent \in BOOLEAN :
    /\ flows[w].pc = "notify"
    /\ flows' = [flows EXCEPT ![w] =
         Finish(@, IF ~sent THEN "error"
                   ELSE IF @.vendor = "success" THEN "success" ELSE "refunded")]
    /\ UNCHANGED <<balance, txs, last, registry>>

\* ------------------------------------------------------------------------
\* Registration (crud/user.py) and the webhook endpoints.
\* ------------------------------------------------------------------------

\* The phone numbers messages come from: user 1's and two unregistered ones.
Phones == {"2348030000001", "2348030000003", "2348030000004"}
NoPhone == ""

\* The referral codes generate_referral_code draws from.
Codes == {"ABCDEFGH", "JKLMNPQR", "STUVWXYZ", "23456789", "QRSTUVWX"}

\* None in a virtual-account column of the users table.
NoDetail == ""

\* The rows of the two users of the ledger.
RegisteredUsers ==
  <<[phone_number |-> "2348030000001", referral_code |-> "ABCDEFGH", is_active |-> TRUE,
     virtual_account_number |-> NoDetail, virtual_account_name |-> NoDetail],
    [phone_number |-> "2348030000002", referral_code |-> "JKLMNPQR", is_active |-> TRUE,
     virtual_account_number |-> NoDetail, virtual_account_name |-> NoDetail]>>

\* UserPreference(user_id, notify_on_transaction=True) with the column defaults.
DefaultPreferences(id) ==
  [user_id |-> id, notify_on_transaction |-> TRUE, notify_on_low_balance |-> TRUE,
   low_balance_threshold |-> 500]

RegisteredPreferences == <<DefaultPreferences(1), DefaultPreferences(2)>>

\* get_user_by_phone on the users table: the id, 0 for None.
UserByPhone(usl, phone) ==
  IF \E i \in 1..Len(usl) : usl[i].phone_number = phone
  THEN CHOOSE i \in 1..Len(usl) : usl[i].phone_number = phone
  ELSE 0

\* max_attempts of generate_unique_referral_code.
MaxAttempts == 10

\* The referral codes of the users table.
HeldCodes(usl) == {usl[i].referral_code : i \in 1..Len(usl)}

\* What generate_referral_code returns in the calls of one loop: one code
\* up to some attempt (none, the first, the first two, all but the last,
\* all), and another code from then on.
Draws ==
  {[n \in 1..MaxAttempts |-> IF n < k THEN h ELSE c] :
     k \in {1, 2, 3, MaxAttempts, MaxAttempts + 1}, h \in Codes, c \in Codes}

\* generate_unique_referral_code returning its first draw unexamined.
GenerateUniqueReferralCode_Unexamined(usl, draws) ==
  [err |-> NoError, code |-> draws[1], attempts |-> 1]

\* The loop of generate_unique_referral_code from attempt n on.
RECURSIVE Attempt(_, _, _)
Attempt(usl, draws, n) ==
  IF n > MaxAttempts
  THEN [err |-> Error("unable to generate unique referral code"),
        code |-> "", attempts |-> MaxAttempts]
  ELSE IF draws[n] \notin HeldCodes(usl)
  THEN [err |-> NoError, code |-> draws[n], attempts |-> n]
  ELSE Attempt(usl, draws, n + 1)

\* generate_unique_referral_code(db), with the codes generate_referral_code
\* draws: the code returned and the attempts made, or the RuntimeError.
GenerateUniqueReferralCode(usl, draws) == Attempt(usl, draws, 1)

\* generate_unique_referral_code: the codes it can return.
FreeCodes(usl) ==
  {g.code : g \in {g \in {GenerateUniqueReferralCode(usl, draws) :
                              draws \in Draws} : g.err = NoError}}

\* create_user: the user row (balance 0.0) and its preferences row are
\* committed; users.phone_number is unique.
CreateUser(usl, prl, bal, phone, code) ==
  IF UserByPhone(usl, phone) # 0
  THEN [err |-> Error("integrity error"), users |-> usl, prefs |-> prl,
        balance |-> bal, user |-> 0]
  ELSE LET id == Len(usl) + 1
       IN  [err |-> NoError,
            users |-> Append(usl, [phone_number |-> phone, referral_code |-> code,
                                   is_active |-> TRUE,
                                   virtual_account_number |-> NoDetail,
                                   virtual_account_name |-> NoDetail]),
            prefs |-> Append(prl, DefaultPreferences(id)),
            balance |-> (id :> FZero) @@ bal,
            user |-> id]

\* get_or_create_user that creates without looking the phone up.
GetOrCreateUser_NoLookup(usl, prl, bal, phone, code) ==
  LET id == Len(usl) + 1
  IN  [err |-> NoError,
       users |-> Append(usl, [phone_number |-> phone, referral_code |-> code,
                              is_active |-> TRUE,
                              virtual_account_number |-> NoDetail,
                              virtual_account_name |-> NoDetail]),
       prefs |-> Append(prl, DefaultPreferences(id)),
       balance |-> (id :> FZero) @@ bal,
       user |-> id, created |-> TRUE]

\* get_or_create_user: (user, is_new).
GetOrCreateUser(usl, prl, bal, phone, code) ==
  LET id == UserByPhone(usl, phone)
  IN  IF id # 0
      THEN [err |-> NoError, users |-> usl, prefs |-> prl, balance |-> bal,
            user |-> id, created |-> FALSE]
      ELSE LET made == CreateUser(usl, prl, bal, phone, code)
           IN  [err |-> made.err, users |-> made.users, prefs |-> made.prefs,
                balance |-> made.balance, user |-> made.user,
                created |-> made.err = NoError]

NoReply == [op |-> "none", status |-> 0, phone |-> NoPhone, user |-> 0, created |-> FALSE]

\* What an endpoint finds in the request: a body that is not JSON
\* (request.json() raises), JSON that is not an object (body.get raises), or
\* a notification.
BadBodies == {"invalid json", "not an object"}

\* asyncio.create_task(create_virtual_account_for_user(user)): the task, not
\* yet run, with the columns of the User instance the handler loaded.
ScheduledTask(id, row) ==
  [user |-> id, pc |-> "scheduled", gateway |-> "none", err |-> NoError,
   object |-> [virtual_account_number |-> row.virtual_account_number,
               virtual_account_name |-> row.virtual_account_name,
               virtual_account_bank |-> NoDetail]]

\* The registration and what it changes, for a call or a message from
\* `phone`.  process_incoming_message has send_welcome_message greet a new
\* user, and the background task is created after the welcome message is
\* sent: a send that raises leaves the user without the task.
Register(op, status, phone) ==
  \E code \in FreeCodes(users), sent \in BOOLEAN :
    LET out == GetOrCreateUser(users, prefs, balance, phone, code)
    IN  /\ users' = out.users
        /\ prefs' = out.prefs
        /\ balance' = out.balance
        /\ reply' = [op |-> op, status |-> status, phone |-> phone,
                     user |-> out.user, created |-> out.created]
        /\ tasks' = IF op = "whatsapp" /\ out.created /\ sent
                    THEN Append(tasks, ScheduledTask(out.user, out.users[out.user]))
                    ELSE tasks
        /\ UNCHANGED <<txs, last, flows, query>>

\* A get_or_create_user call.
GetOrCreate == \E phone \in Phones : Register("get_or_create", 0, phone)

\* POST /webhooks/whatsapp (receive_webhook): a greeting is processed, with
\* the sender registered first, and acknowledged; an exception raised while
\* the body is read or taken apart becomes an HTTP 500.
ReceiveWebhook ==
  \/ \E phone \in Phones : Register("whatsapp", 200, phone)
  \/ \E body \in BadBodies :
       /\ reply' = [NoReply EXCEPT !.op = "whatsapp", !.status = 500]
       /\ UNCHANGED <<balance, txs, last, flows, users, prefs, query, tasks>>

\* POST /webhooks/payrant (receive_payrant_webhook): a payment event is
\* handled and acknowledged, an event of another type is acknowledged; an
\* exception raised while the body is read or taken apart becomes an HTTP 500.
ReceivePayrantWebhook ==
  \/ \E event \in {"payment.success", "other"} :
       LET payload == [amount |-> Funding, reference |-> <<"ext", 1>>,
                       account |-> Forbill(1)]
       IN  /\ IF event = "payment.success"
              THEN Commit([op |-> "payment_success", payload |-> payload],
                          HandleSuccessfulPayment(balance, txs, payload))
              ELSE UNCHANGED <<balance, txs, last>>
           /\ reply' = [NoReply EXCEPT !.op = "payrant", !.status = 200]
           /\ UNCHANGED <<flows, users, prefs, query, tasks>>
  \/ \E body \in BadBodies :
       /\ reply' = [NoReply EXCEPT !.op = "payrant", !.status = 500]
       /\ UNCHANGED <<balance, txs, last, flows, users, prefs, query, tasks>>

\* The parameters of PayrantService.create_virtual_account after self, and
\* those of them without a default.
CreateVirtualAccountParameters == {"user", "account_name"}
CreateVirtualAccountRequired == {"user"}

\* What the payment gateway does with a request to create an account.
Gateways == {"able", "unable"}

\* The keyword arguments create_virtual_account_for_user passes to it.
CreateVirtualAccountKeywords ==
  {"customer_name", "customer_email", "customer_phone", "account_reference"}

\* A call with keyword arguments reaches the body when every keyword names a
\* parameter and every parameter without a default has an argument; the
\* call raises TypeError otherwise.
Binds(keywords, parameters, required) ==
  keywords \subseteq parameters /\ required \subseteq keywords

\* PayrantService.create_virtual_account: the dictionary it returns; it
\* raises nothing once its body runs.
CreateVirtualAccount(id, gateway) ==
  IF gateway = "able"
  THEN [success |-> TRUE, account_number |-> "99" \o ToString(id),
        account_name |-> "ForBill-" \o ToString(id), bank_name |-> "Payrant Bank"]
  ELSE [success |-> FALSE, account_number |-> NoDetail, account_name |-> NoDetail,
        bank_name |-> NoDetail]

\* create_virtual_account_for_user(user), run while the gateway is as
\* `gateway` says: the users table and the task when it has ended.  Every exception is logged and swallowed.  The columns are
\* assigned on the instance the task was given, which the session of the
\* message handler loaded, and db.commit() commits the task's own session.
CreateVirtualAccountTask(usl, task, gateway) ==
  IF task.object.virtual_account_number # NoDetail
  THEN [users |-> usl, task |-> [task EXCEPT !.pc = "done", !.gateway = gateway]]
  ELSE IF ~Binds(CreateVirtualAccountKeywords, CreateVirtualAccountParameters,
                 CreateVirtualAccountRequired)
  THEN [users |-> usl,
        task |-> [task EXCEPT !.pc = "done", !.gateway = gateway,
                               !.err = Error("TypeError")]]
  ELSE LET result == CreateVirtualAccount(task.user, gateway)
       IN  [users |-> usl,
            task |-> [task EXCEPT
                        !.pc = "done", !.gateway = gateway,
                        !.object = [virtual_account_number |-> result.account_number,
                                    virtual_account_name |-> result.account_name,
                                    virtual_account_bank |-> result.bank_name]]]

\* The event loop runs a task that was created.
CreateVirtualAccountForUser ==
  \E t \in 1..Len(tasks), gateway \in Gateways :
    /\ tasks[t].pc = "scheduled"
    /\ LET out == CreateVirtualAccountTask(users, tasks[t], gateway)
       IN  /\ users' = out.users
           /\ tasks' = [tasks EXCEPT ![t] = out.task]
    /\ UNCHANGED <<balance, txs, last, flows, prefs, reply, query>>

\* ------------------------------------------------------------------------
\* The command parser (services/commands.py).  Messages are strings; the
\* patterns are the regular expressions of CommandParser.__init__, matched
\* the way re.search matches them.
\* ------------------------------------------------------------------------

\* str.lower on the letters of the messages.
ToLower ==
  [c \in {"A", "B", "C", "D", "E", "F", "G", "H", "I", "J", "K", "L", "M", "N",
          "O", "P", "Q", "R", "S", "T", "U", "V", "W", "X", "Y", "Z"} |->
     CASE c = "A" -> "a" [] c = "B" -> "b" [] c = "C" -> "c" [] c = "D" -> "d"
       [] c = "E" -> "e" [] c = "F" -> "f" [] c = "G" -> "g" [] c = "H" -> "h"
       [] c = "I" -> "i" [] c = "J" -> "j" [] c = "K" -> "k" [] c = "L" -> "l"
       [] c = "M" -> "m" [] c = "N" -> "n" [] c = "O" -> "o" [] c = "P" -> "p"
       [] c = "Q" -> "q" [] c = "R" -> "r" [] c = "S" -> "s" [] c = "T" -> "t"
       [] c = "U" -> "u" [] c = "V" -> "v" [] c = "W" -> "w" [] c = "X" -> "x"
       [] c = "Y" -> "y" [] c = "Z" -> "z"]

RECURSIVE Lower(_)
Lower(s) ==
  IF s = "" THEN ""
  ELSE IF Len(s) = 1 THEN (IF s \in DOMAIN ToLower THEN ToLower[s] ELSE s)
  ELSE Lower(SubSeq(s, 1, Len(s) \div 2))
         \o Lower(SubSeq(s, Len(s) \div 2 + 1, Len(s)))

\* The characters \s matches and str.strip removes.
Whitespace == {" ", "\t", "\n"}

\* str.strip leaving the text as it is.
Strip_Keep(s) == s

\* str.strip
RECURSIVE Strip(_)
Strip(s) ==
  IF s = "" THEN ""
  ELSE IF SubSeq(s, 1, 1) \in Whitespace THEN Strip(Tail(s))
  ELSE IF SubSeq(s, Len(s), Len(s)) \in Whitespace
       THEN Strip(SubSeq(s, 1, Len(s) - 1))
  ELSE s

\* The constructs the patterns are written in.
Lit(w) == [t |-> "lit", w |-> w]
Digit == [t |-> "class", set |-> DOMAIN DigitValue]
Space == [t |-> "class", set |-> Whitespace]
Bol == [t |-> "bol"]
Eol == [t |-> "eol"]
Group(k, r) == [t |-> "group", k |-> k, r |-> r]
Opt(r) == [t |-> "opt", r |-> r]
Plus(r) == [t |-> "plus", r |-> r]
Star(r) == [t |-> "star", r |-> r]
Times(r, n) == [t |-> "times", r |-> r, n |-> n]
Alt(rs) == [t |-> "alt", rs |-> rs]
Cat(rs) == [t |-> "cat", rs |-> rs]

\* F(v), with v evaluated once however often F uses it.
Let(v, F(_)) == CHOOSE y \in {F(x) : x \in {v}} : TRUE

RECURSIVE Flatten(_)
Flatten(ss) == IF ss = <<>> THEN <<>> ELSE Head(ss) \o Flatten(Tail(ss))

\* No group has taken part in the match: match.groups() is None throughout.
NoCaptures == <<<<0, 0>>, <<0, 0>>, <<0, 0>>, <<0, 0>>>>

\* The characters of the set that s holds from position i on without a
\* break: how many there are.
MaxRun(s, i, set) ==
  CHOOSE n \in 0..(Len(s) + 1 - i) :
    /\ \A k \in i..(i + n - 1) : SubSeq(s, k, k) \in set
    /\ i + n = Len(s) + 1 \/ SubSeq(s, i + n, i + n) \notin set

\* A character class repeated min to max times from position i: the greedy
\* matcher takes as many characters as there are and gives them back one
\* by one.  The patterns repeat nothing but character classes.
Repeat(set, s, i, caps, min, max) ==
  LET run  == MaxRun(s, i, set)
      most == IF run < max THEN run ELSE max
  IN  IF most < min THEN <<>>
      ELSE Flatten([k \in 1..(most - min + 1) |->
                      <<[pos |-> i + most - k + 1, caps |-> caps]>>])

\* The ways pattern r matches s[i..], in the order the backtracking matcher
\* of re tries them: the position after the match and the span of every
\* group.  re.IGNORECASE: a literal is compared with the lowered text.
RECURSIVE Run(_, _, _, _)
RECURSIVE RunAll(_, _, _)
Run(r, s, i, caps) ==
  LET here == <<[pos |-> i, caps |-> caps]>>
      ms   == Run(r.r, s, i, caps)
  IN  CASE r.t = "lit" ->
             IF /\ i + Len(r.w) - 1 <= Len(s)
                /\ Lower(SubSeq(s, i, i + Len(r.w) - 1)) = r.w
             THEN <<[pos |-> i + Len(r.w), caps |-> caps]>> ELSE <<>>
        [] r.t = "class" ->
             IF i <= Len(s) /\ SubSeq(s, i, i) \in r.set
             THEN <<[pos |-> i + 1, caps |-> caps]>> ELSE <<>>
        [] r.t = "bol" -> IF i = 1 THEN here ELSE <<>>
        [] r.t = "eol" ->
             IF i = Len(s) + 1 \/ (i = Len(s) /\ SubSeq(s, i, i) = "\n")
             THEN here ELSE <<>>
        [] r.t = "group" ->
             IF ms = <<>> THEN <<>>
             ELSE Flatten([j \in 1..Len(ms) |->
                    <<[ms[j] EXCEPT !.caps[r.k] = <<i, ms[j].pos>>]>>])
        [] r.t = "opt" -> ms \o here
        [] r.t = "star" -> Repeat(r.r.set, s, i, caps, 0, Len(s))
        [] r.t = "plus" -> Repeat(r.r.set, s, i, caps, 1, Len(s))
        [] r.t = "times" -> Repeat(r.r.set, s, i, caps, r.n, r.n)
        [] r.t = "alt" ->
             Flatten([j \in 1..Len(r.rs) |-> Run(r.rs[j], s, i, caps)])
        [] r.t = "cat" -> RunAll(r.rs, s, here)

\* The patterns rs one after the other, from each of the matches ms so far:
\* the first half of them, and the second half from where the first ended.
RunAll(rs, s, ms) ==
  IF ms = <<>> \/ Len(rs) = 0 THEN ms
  ELSE IF Len(rs) = 1
  THEN Flatten([j \in 1..Len(ms) |-> Run(rs[1], s, ms[j].pos, ms[j].caps)])
  ELSE RunAll(SubSeq(rs, Len(rs) \div 2 + 1, Len(rs)), s,
              RunAll(SubSeq(rs, 1, Len(rs) \div 2), s, ms))

\* re.search(pattern, s, re.IGNORECASE): the spans of the groups in the
\* leftmost match, None as <<>>.
Search(r, s) ==
  Let({i \in 1..(Len(s) + 1) : Run(r, s, i, NoCaptures) # <<>>},
      LAMBDA starts :
        IF starts = {} THEN <<>>
        ELSE Head(Run(r, s, CHOOSE i \in starts : \A j \in starts : i <= j,
                      NoCaptures)).caps)

\* CommandParser._match_pattern
MatchPattern(message, patterns) ==
  \E p \in 1..Len(patterns) : Search(patterns[p], message) # <<>>

\* len(match.groups()): the number of groups of the pattern.
RECURSIVE NGroups(_)
NGroups(r) ==
  CASE r.t = "group" -> 1 + NGroups(r.r)
    [] r.t \in {"opt", "plus", "star", "times"} -> NGroups(r.r)
    [] r.t \in {"alt", "cat"} ->
         IF r.rs = <<>> THEN 0
         ELSE NGroups(Head(r.rs)) + NGroups([r EXCEPT !.rs = Tail(@)])
    [] OTHER -> 0

\* match.groups() of re.search(pattern, s), a group that took no part
\* (None) as the empty string: every test the parser makes of a group
\* treats the two alike.
Groups(r, s) ==
  Let(Search(r, s),
      LAMBDA caps : Flatten([k \in 1..NGroups(r) |->
                               <<SubSeq(s, caps[k][1], caps[k][2] - 1)>>]))

GreetingPatterns ==
  <<
    \* ^(hi|hello|hey|start|good\s*(morning|afternoon|evening))$
    Cat(<<Bol, Group(1, Alt(<<Lit("hi"), Lit("hello"), Lit("hey"),
      Lit("start"), Cat(<<Lit("good"), Star(Space), Group(2,
      Alt(<<Lit("morning"), Lit("afternoon"), Lit("evening")>>))>>)>>)), Eol>>)
  >>

HelpPatterns ==
  <<
    \* ^(help|menu|options|commands|what can you do)$
    Cat(<<Bol, Group(1, Alt(<<Lit("help"), Lit("menu"), Lit("options"),
      Lit("commands"), Lit("what can you do")>>)), Eol>>)
  >>

BalancePatterns ==
  <<
    \* ^(balance|check balance|my balance|wallet|check wallet)$
    Cat(<<Bol, Group(1, Alt(<<Lit("balance"), Lit("check balance"),
      Lit("my balance"), Lit("wallet"), Lit("check wallet")>>)), Eol>>),
    \* ^(bal)$
    Cat(<<Bol, Group(1, Lit("bal")), Eol>>)
  >>

HistoryPatterns ==
  <<
    \* ^(history|transactions|my transactions|transaction history)$
    Cat(<<Bol, Group(1, Alt(<<Lit("history"), Lit("transactions"),
      Lit("my transactions"), Lit("transaction history")>>)), Eol>>),
    \* ^(txn|txns)$
    Cat(<<Bol, Group(1, Alt(<<Lit("txn"), Lit("txns")>>)), Eol>>)
  >>

ReferralPatterns ==
  <<
    \* ^(referral|refer|my referral|referral code|invite)$
    Cat(<<Bol, Group(1, Alt(<<Lit("referral"), Lit("refer"),
      Lit("my referral"), Lit("referral code"), Lit("invite")>>)), Eol>>),
    \* ^(ref\s+code)$
    Cat(<<Bol, Group(1, Cat(<<Lit("ref"), Plus(Space), Lit("code")>>)), Eol>>)
  >>

AirtimePatterns ==
  <<
    \* (?:buy\s+)?(\d+)\s*(?:naira\s+)?airtime\s+for\s+((?:0|234)\d{10})
    Cat(<<Opt(Cat(<<Lit("buy"), Plus(Space)>>)), Group(1, Plus(Digit)),
      Star(Space), Opt(Cat(<<Lit("naira"), Plus(Space)>>)), Lit("airtime"),
      Plus(Space), Lit("for"), Plus(Space), Group(2, Cat(<<Alt(<<Lit("0"),
      Lit("234")>>), Times(Digit, 10)>>))>>),
    \* airtime\s+(\d+)\s+(?:for|to)\s+((?:0|234)\d{10})
    Cat(<<Lit("airtime"), Plus(Space), Group(1, Plus(Digit)), Plus(Space),
      Alt(<<Lit("for"), Lit("to")>>), Plus(Space), Group(2,
      Cat(<<Alt(<<Lit("0"), Lit("234")>>), Times(Digit, 10)>>))>>),
    \* (?:buy\s+)?(\d+)\s*(?:naira\s+)?airtime
    Cat(<<Opt(Cat(<<Lit("buy"), Plus(Space)>>)), Group(1, Plus(Digit)),
      Star(Space), Opt(Cat(<<Lit("naira"), Plus(Space)>>)), Lit("airtime")>>),
    \* airtime\s+(?:of\s+)?(\d+)
    Cat(<<Lit("airtime"), Plus(Space), Opt(Cat(<<Lit("of"), Plus(Space)>>)),
      Group(1, Plus(Digit))>>),
    \* (?:buy\s+)?airtime\s+(?:for\s+)?(\d+)
    Cat(<<Opt(Cat(<<Lit("buy"), Plus(Space)>>)), Lit("airtime"), Plus(Space),
      Opt(Cat(<<Lit("for"), Plus(Space)>>)), Group(1, Plus(Digit))>>),
    \* (?:recharge|top\s*up)\s+(\d+)
    Cat(<<Alt(<<Lit("recharge"), Cat(<<Lit("top"), Star(Space),
      Lit("up")>>)>>), Plus(Space), Group(1, Plus(Digit))>>)
  >>

DataPatterns ==
  <<
    \* ^(buy\s+data|get\s+data|data\s+bundles?|data)$
    Cat(<<Bol, Group(1, Alt(<<Cat(<<Lit("buy"), Plus(Space), Lit("data")>>),
      Cat(<<Lit("get"), Plus(Space), Lit("data")>>), Cat(<<Lit("data"),
      Plus(Space), Lit("bundle"), Opt(Lit("s"))>>), Lit("data")>>)), Eol>>),
    \* (?:buy\s+)?(\d+(?:\.\d+)?)(gb|mb)\s+(mtn|glo|airtel|9mobile)
    Cat(<<Opt(Cat(<<Lit("buy"), Plus(Space)>>)), Group(1, Cat(<<Plus(Digit),
      Opt(Cat(<<Lit("."), Plus(Digit)>>))>>)), Group(2, Alt(<<Lit("gb"),
      Lit("mb")>>)), Plus(Space), Group(3, Alt(<<Lit("mtn"), Lit("glo"),
      Lit("airtel"), Lit("9mobile")>>))>>),
    \* (mtn|glo|airtel|9mobile)\s+(\d+(?:\.\d+)?)(gb|mb)
    Cat(<<Group(1, Alt(<<Lit("mtn"), Lit("glo"), Lit("airtel"),
      Lit("9mobile")>>)), Plus(Space), Group(2, Cat(<<Plus(Digit),
      Opt(Cat(<<Lit("."), Plus(Digit)>>))>>)), Group(3, Alt(<<Lit("gb"),
      Lit("mb")>>))>>),
    \* (\d+(?:\.\d+)?)(gb|mb)\s+(mtn|glo|airtel|9mobile)\s+(?:for|to)\s+((?:0|234)\d{10})
    Cat(<<Group(1, Cat(<<Plus(Digit), Opt(Cat(<<Lit("."), Plus(Digit)>>))>>)),
      Group(2, Alt(<<Lit("gb"), Lit("mb")>>)), Plus(Space), Group(3,
      Alt(<<Lit("mtn"), Lit("glo"), Lit("airtel"), Lit("9mobile")>>)),
      Plus(Space), Alt(<<Lit("for"), Lit("to")>>), Plus(Space), Group(4,
      Cat(<<Alt(<<Lit("0"), Lit("234")>>), Times(Digit, 10)>>))>>)
  >>

ElectricityPatterns ==
  <<
    \* ^(buy\s+electricity|electricity|light\s+bill|pay\s+light|nepa|ekedc|ikedc)$
    Cat(<<Bol, Group(1, Alt(<<Cat(<<Lit("buy"), Plus(Space),
      Lit("electricity")>>), Lit("electricity"), Cat(<<Lit("light"),
      Plus(Space), Lit("bill")>>), Cat(<<Lit("pay"), Plus(Space),
      Lit("light")>>), Lit("nepa"), Lit("ekedc"), Lit("ikedc")>>)), Eol>>),
    \* (?:buy|pay)\s+(\d+)\s+(?:electricity|light)
    Cat(<<Alt(<<Lit("buy"), Lit("pay")>>), Plus(Space), Group(1, Plus(Digit)),
      Plus(Space), Alt(<<Lit("electricity"), Lit("light")>>)>>),
    \* (\d+)\s+(?:naira\s+)?(?:electricity|light)
    Cat(<<Group(1, Plus(Digit)), Plus(Space), Opt(Cat(<<Lit("naira"),
      Plus(Space)>>)), Alt(<<Lit("electricity"), Lit("light")>>)>>)
  >>

CablePatterns ==
  <<
    \* ^(cable|tv|dstv|gotv|startimes)$
    Cat(<<Bol, Group(1, Alt(<<Lit("cable"), Lit("tv"), Lit("dstv"),
      Lit("gotv"), Lit("startimes")>>)), Eol>>),
    \* (?:pay|subscribe|renew)\s+(dstv|gotv|startimes)
    Cat(<<Alt(<<Lit("pay"), Lit("subscribe"), Lit("renew")>>), Plus(Space),
      Group(1, Alt(<<Lit("dstv"), Lit("gotv"), Lit("startimes")>>))>>)
  >>

\* ^\d+(?:\.\d+)?$   and   ^(?:0|234)\d{10}$   (_parse_data)
SizePattern ==
  Cat(<<Bol, Plus(Digit), Opt(Cat(<<Lit("."), Plus(Digit)>>)), Eol>>)

PhonePattern ==
  Cat(<<Bol, Alt(<<Lit("0"), Lit("234")>>), Times(Digit, 10), Eol>>)

\* A result dictionary with key k set to v.
Put(d, k, v) == (k :> v) @@ d

\* A parser method returning None.
None == [command_type |-> "none"]

\* The loop of the command parsers: the result made of the groups of the
\* first pattern that re.search finds in the message, None when the loop
\* ends without a match.
FirstResult(message, patterns, Result(_, _)) ==
  Let({p \in 1..Len(patterns) : Search(patterns[p], message) # <<>>},
      LAMBDA hits :
        IF hits = {} THEN None
        ELSE Let(Groups(patterns[CHOOSE p \in hits : \A q \in hits : p <= q],
                        message),
                 LAMBDA groups : Result(message, groups)))

\* re.sub(r"\D", "", phone) leaving the text as it is.
RemoveNonDigits_Keep(phone) == phone

\* re.sub(r"\D", "", phone)
RECURSIVE RemoveNonDigits(_)
RemoveNonDigits(phone) ==
  IF phone = "" THEN ""
  ELSE IF Len(phone) = 1
  THEN (IF phone \in DOMAIN DigitValue THEN phone ELSE "")
  ELSE RemoveNonDigits(SubSeq(phone, 1, Len(phone) \div 2))
         \o RemoveNonDigits(SubSeq(phone, Len(phone) \div 2 + 1, Len(phone)))

\* CommandParser._normalize_phone, None as NoPhone.
NormalizePhone(phone) ==
  LET digits == RemoveNonDigits(phone)
  IN  IF phone = "" THEN NoPhone
      ELSE IF Len(digits) = 13 /\ SubSeq(digits, 1, 3) = "234" THEN digits
      ELSE IF Len(digits) = 11 /\ SubSeq(digits, 1, 1) = "0"
           THEN "234" \o Tail(digits)
      ELSE IF Len(digits) = 10 THEN "234" \o digits
      ELSE NoPhone

\* CommandParser._unknown_command
UnknownCommand(message) ==
  [command_type |-> "unknown", original_message |-> message,
   confidence |-> "low"]

\* CommandParser._parse_airtime on a message.  int() accepts every run of
\* digits a pattern captures, so the ValueError branch is never taken.
ParseAirtimeCommand(message) ==
  LET Result(m, groups) ==
        LET parsed == IF groups[1] # ""
                      THEN ParseAirtime(<<"digits", ToInt(groups[1])>>)
                      ELSE ParseAirtime(NoGroup)
            phone == IF Len(groups) > 1 /\ groups[2] # ""
                     THEN NormalizePhone(groups[2]) ELSE NoPhone
            r0 == [command_type |-> "airtime", original_message |-> m,
                   confidence |-> IF parsed.error # "" THEN "low" ELSE "high"]
            r1 == IF parsed.error # "" THEN Put(r0, "error", parsed.error)
                  ELSE r0
            r2 == IF parsed.amount # 0 THEN Put(r1, "amount", parsed.amount)
                  ELSE r1
        IN  IF phone # NoPhone THEN Put(r2, "phone_number", phone) ELSE r2
  IN  FirstResult(message, AirtimePatterns, Result)

\* The text without its leading zeros (fromLeft) or without its trailing
\* zeros, as repr(float) drops them.
RECURSIVE DropZeros(_, _)
DropZeros(digits, fromLeft) ==
  IF digits = "" THEN "0"
  ELSE IF fromLeft /\ SubSeq(digits, 1, 1) = "0"
       THEN DropZeros(Tail(digits), fromLeft)
  ELSE IF ~fromLeft /\ SubSeq(digits, Len(digits), Len(digits)) = "0"
       THEN DropZeros(SubSeq(digits, 1, Len(digits) - 1), fromLeft)
  ELSE digits

\* float(group) of a decimal numeral as the fraction num / den, and
\* repr(float(group)).  The numerals of the messages are short enough that
\* float holds them, and their products with 1024, to the nearest integer.
ToFloat(group) ==
  LET dots == {i \in 1..Len(group) : SubSeq(group, i, i) = "."}
      dot == IF dots = {} THEN Len(group) + 1 ELSE CHOOSE i \in dots : TRUE
      whole == SubSeq(group, 1, dot - 1)
      frac == SubSeq(group, dot + 1, Len(group))
  IN  [num |-> ToInt(whole \o frac),
       den |-> 10 ^ Len(frac),
       repr |-> DropZeros(whole, TRUE) \o "." \o DropZeros(frac, FALSE)]

\* What the loop of _parse_data takes a group for: it tests for a size
\* first, then for a unit, a network and a phone number.
GroupKind(group) ==
  IF group = "" THEN "none"
  ELSE IF Search(SizePattern, group) # <<>> THEN "size"
  ELSE IF Lower(group) \in {"gb", "mb"} THEN "unit"
  ELSE IF Lower(group) \in {"mtn", "glo", "airtel", "9mobile"} THEN "network"
  ELSE IF Search(PhonePattern, group) # <<>> THEN "phone"
  ELSE "other"

\* CommandParser._parse_data.  Of the groups of one kind the last stays.
ParseDataCommand(message) ==
  LET Classified(m, groups, kinds) ==
        LET Last(kind) ==
              LET ks == {k \in 1..Len(groups) : kinds[k] = kind}
              IN  IF ks = {} THEN ""
                  ELSE groups[CHOOSE k \in ks : \A j \in ks : j <= k]
            size == ToFloat(Last("size"))
            unit == Lower(Last("unit"))
            phone == NormalizePhone(Last("phone"))
            r0 == [command_type |-> "data", original_message |-> m,
                   confidence |-> "medium"]
            r1 == IF size.num # 0 /\ unit # ""
                  THEN Put(Put(Put(r0, "confidence", "high"),
                         "data_size_mb",
                         IF unit = "gb" THEN (size.num * 1024) \div size.den
                         ELSE size.num \div size.den),
                         "data_size_display",
                         size.repr \o (IF unit = "gb" THEN "GB" ELSE "MB"))
                  ELSE r0
            r2 == IF Last("network") # ""
                  THEN Put(r1, "network", Lower(Last("network"))) ELSE r1
        IN  IF Len(groups) = 1 THEN r0
            ELSE IF phone # NoPhone THEN Put(r2, "phone_number", phone)
            ELSE r2
      Result(m, groups) ==
        Let(Flatten([k \in 1..Len(groups) |-> <<GroupKind(groups[k])>>]),
            LAMBDA kinds : Classified(m, groups, kinds))
  IN  FirstResult(message, DataPatterns, Result)

\* CommandParser._parse_electricity on a message.
ParseElectricityCommand(message) ==
  LET Result(m, groups) ==
        LET isdigit == IsDigit(groups[1])
            parsed == IF isdigit
                      THEN ParseElectricity(<<"digits", ToInt(groups[1])>>)
                      ELSE ParseElectricity(NoGroup)
            r0 == [command_type |-> "electricity", original_message |-> m,
                   confidence |-> "medium"]
        IN  IF parsed.amount # 0
            THEN Put(Put(r0, "amount", parsed.amount), "confidence", "high")
            ELSE r0
  IN  FirstResult(message, ElectricityPatterns, Result)

\* CommandParser._parse_cable
ParseCable(message) ==
  LET Result(m, groups) ==
        LET r0 == [command_type |-> "cable_tv", original_message |-> m,
                   confidence |-> "medium"]
        IN  IF Lower(groups[1]) \in {"dstv", "gotv", "startimes"}
            THEN Put(Put(r0, "provider", Lower(groups[1])),
                     "confidence", "high")
            ELSE r0
  IN  FirstResult(message, CablePatterns, Result)

\* CommandParser.parse
Parse(text) ==
  LET Simple(type, message) ==
        [command_type |-> type, original_message |-> message,
         confidence |-> "high"]
      First(results) ==
        LET found == {k \in 1..Len(results) : results[k] # None}
        IN  results[CHOOSE k \in found : \A j \in found : k <= j]
      Normalized(message) ==
        IF message = "" THEN UnknownCommand(message)
        ELSE IF MatchPattern(message, GreetingPatterns)
             THEN Simple("greeting", message)
        ELSE IF MatchPattern(message, HelpPatterns)
             THEN Simple("help", message)
        ELSE IF MatchPattern(message, BalancePatterns)
             THEN Simple("balance", message)
        ELSE IF MatchPattern(message, HistoryPatterns)
             THEN Simple("history", message)
        ELSE IF MatchPattern(message, ReferralPatterns)
             THEN Simple("referral", message)
        ELSE Let(<<ParseAirtimeCommand(message), ParseDataCommand(message),
                   ParseElectricityCommand(message), ParseCable(message),
                   UnknownCommand(message)>>, First)
  IN  IF text = "" THEN UnknownCommand(text)
      ELSE Let(Lower(Strip(text)), Normalized)

\* str.upper on the letters of the messages.
RECURSIVE Upper(_)
Upper(s) ==
  IF s = "" THEN ""
  ELSE IF Len(s) = 1
  THEN LET up == {C \in DOMAIN ToLower : ToLower[C] = s}
       IN  IF up = {} THEN s ELSE CHOOSE C \in up : TRUE
  ELSE Upper(SubSeq(s, 1, Len(s) \div 2))
         \o Upper(SubSeq(s, Len(s) \div 2 + 1, Len(s)))

\* The commands users send, in lower case and without surrounding space.
Messages ==
  {"hi", "good morning", "help", "bal", "check balance", "txns", "ref code",
   "hello there",
   "buy airtime", "airtime", "buy 100 airtime for 08012345678",
   "airtime 200 to 2348012345678", "recharge 500", "buy 100 naira airtime",
   "buy data", "1gb mtn", "mtn 500mb", "buy 1.5gb airtel", "0.5mb glo",
   "1gb mtn for 08012345678", "2gb glo to 2348012345678",
   "500mb airtel for 08021234567",
   "nepa", "buy 5000 electricity", "99 naira light", "dstv", "pay gotv"}

\* The amounts a of the messages "buy {a} airtime".
Amounts == {-60, -5, 0, 49, 50, 100, 50000, 50001}

\* f"buy {a} airtime"
AirtimeMessage(a) == "buy " \o ToString(a) \o " airtime"

\* A message as users type it: in another letter case, with space around it.
Rewritings(m) ==
  {m, Upper(m), Upper(SubSeq(m, 1, 1)) \o Tail(m),
   "  " \o m, m \o " \n", "\t" \o Upper(m) \o " "}

\* No call is being made.
NoQuery == [op |-> "none", returned |-> FALSE]

\* The calls of parse_command.
ParseQueries ==
  {[op |-> "parse", returned |-> FALSE, message |-> m, text |-> text] :
     <<m, text>> \in
       UNION {{m} \X Rewritings(m) :
                m \in Messages \cup {AirtimeMessage(a) : a \in Amounts}}}

\* Where the runs of space of a message start.
RunStarts(m) ==
  {p \in 1..Len(m) :
     /\ SubSeq(m, p, p) \in Whitespace
     /\ p = 1 \/ SubSeq(m, p - 1, p - 1) \notin Whitespace}

\* The message with the run of space that starts at p replaced by w.
Respaced(m, p, w) ==
  SubSeq(m, 1, p - 1) \o w
    \o SubSeq(m, p + MaxRun(m, p, Whitespace), Len(m))

\* The runs of space written in place of a single space.
Spacings == {"  ", " \t "}

\* The calls of parse_command on a message with one of its inner runs of
\* space written longer.
RespacedQueries ==
  {[op |-> "parse_respaced", returned |-> FALSE, message |-> m,
    text |-> text] :
     <<m, text>> \in
       UNION {{m} \X {Respaced(m, p, w) : p \in RunStarts(m), w \in Spacings} :
                m \in Messages}}

\* parse_command(text) returns.
ParseCommand ==
  /\ query.op \in {"parse", "parse_respaced"} /\ ~query.returned
  /\ query' = [op |-> query.op, returned |-> TRUE, message |-> query.message,
               text |-> query.text, result |-> Parse(query.text)]
  /\ UNCHANGED <<balance, txs, last, flows, users, prefs, reply, tasks>>

\* The digits of the phone numbers handed to _normalize_phone: well formed
\* (13 with 234, 11 with 0, 10) and malformed.
PhoneDigits ==
  {"2348012345678", "08012345678", "8012345678", "", "12345",
   "080123456789", "23480123456789", "1234567890123", "18012345678",
   "234801234567", "0801234567"}

\* The ways a number is written around its digits.
Writings(d) ==
  {d, "+" \o d, "(" \o d \o ")", "tel:" \o d,
   SubSeq(d, 1, Len(d) \div 2) \o " " \o SubSeq(d, Len(d) \div 2 + 1, Len(d)),
   SubSeq(d, 1, Len(d) \div 3) \o "-" \o SubSeq(d, Len(d) \div 3 + 1, Len(d))}

\* The calls of _normalize_phone.
NormalizeQueries ==
  {[op |-> "normalize_phone", returned |-> FALSE, digits |-> d,
    phone |-> phone] :
     <<d, phone>> \in UNION {{d} \X Writings(d) : d \in PhoneDigits}}

\* command_parser._normalize_phone(phone) returns.
NormalizePhoneCall ==
  /\ query.op = "normalize_phone" /\ ~query.returned
  /\ query' = [op |-> "normalize_phone", returned |-> TRUE,
               digits |-> query.digits, phone |-> query.phone,
               result |-> NormalizePhone(query.phone)]
  /\ UNCHANGED <<balance, txs, last, flows, users, prefs, reply, tasks>>

\* ------------------------------------------------------------------------
\* The network of an airtime purchase and the plan of a data purchase
\* (api/webhooks/whatsapp.py).
\* ------------------------------------------------------------------------

\* network_map of handle_airtime_purchase.
NetworkMap ==
  ("0803" :> "MTN") @@ ("0806" :> "MTN") @@ ("0810" :> "MTN")
    @@ ("0813" :> "MTN") @@ ("0814" :> "MTN") @@ ("0816" :> "MTN")
    @@ ("0903" :> "MTN") @@ ("0906" :> "MTN") @@ ("0913" :> "MTN")
    @@ ("0916" :> "MTN")
    @@ ("0805" :> "GLO") @@ ("0807" :> "GLO") @@ ("0811" :> "GLO")
    @@ ("0815" :> "GLO") @@ ("0905" :> "GLO")
    @@ ("0802" :> "AIRTEL") @@ ("0808" :> "AIRTEL") @@ ("0812" :> "AIRTEL")
    @@ ("0902" :> "AIRTEL") @@ ("0907" :> "AIRTEL")
    @@ ("0809" :> "9MOBILE") @@ ("0817" :> "9MOBILE")
    @@ ("0818" :> "9MOBILE") @@ ("0909" :> "9MOBILE")

\* phone.startswith(prefix)
StartsWith(phone, prefix) ==
  Len(phone) >= Len(prefix) /\ SubSeq(phone, 1, Len(prefix)) = prefix

\* Python's phone[from:to], which cuts the slice at the end of the string.
Slice(phone, from, to) ==
  SubSeq(phone, from + 1, IF to < Len(phone) THEN to ELSE Len(phone))

\* handle_airtime_purchase: the network of a purchase that names none.
DetectNetwork(phone) ==
  LET phone_prefix == IF StartsWith(phone, "234") THEN Slice(phone, 3, 6)
                      ELSE Slice(phone, 0, 4)
  IN  IF phone_prefix \in DOMAIN NetworkMap THEN NetworkMap[phone_prefix]
      ELSE "MTN"

\* The recipients of airtime, in the local form; the last has a prefix the
\* table does not hold.
LocalRecipients ==
  {"08051234567", "08021234567", "08031234567", "08091234567", "07011234567"}

\* The calls: every recipient in the local and in the 234 form.
NetworkQueries ==
  {[op |-> "detect_network", returned |-> FALSE, phone |-> phone] :
     phone \in LocalRecipients \cup {"234" \o Tail(p) : p \in LocalRecipients}}

\* handle_airtime_purchase picks the network for the recipient.
DetectNetworkCall ==
  /\ query.op = "detect_network" /\ ~query.returned
  /\ query' = [op |-> "detect_network", returned |-> TRUE,
               phone |-> query.phone, result |-> DetectNetwork(query.phone)]
  /\ UNCHANGED <<balance, txs, last, flows, users, prefs, reply, tasks>>

\* plan.get("size_mb", 0)
PlanSize(plan) == IF "size_mb" \in DOMAIN plan THEN plan.size_mb ELSE 0

\* The sort key with the sign of the difference kept.
SizeDifference_Signed(plan, data_size_mb) == PlanSize(plan) - data_size_mb

\* The sort key: abs(p.get("size_mb", 0) - data_size_mb)
SizeDifference(plan, data_size_mb) ==
  IF PlanSize(plan) >= data_size_mb THEN PlanSize(plan) - data_size_mb
  ELSE data_size_mb - PlanSize(plan)

\* A plan put into a sorted list behind every plan that is not further from
\* the size than it is (sorted is stable).
RECURSIVE InsertPlan(_, _, _)
InsertPlan(sorted, plan, data_size_mb) ==
  IF sorted = <<>> THEN <<plan>>
  ELSE IF SizeDifference(plan, data_size_mb)
            < SizeDifference(Head(sorted), data_size_mb)
       THEN <<plan>> \o sorted
       ELSE <<Head(sorted)>> \o InsertPlan(Tail(sorted), plan, data_size_mb)

\* sorted(plans, key=lambda p: abs(p.get("size_mb", 0) - data_size_mb))
RECURSIVE SortedPlans(_, _)
SortedPlans(plans, data_size_mb) ==
  IF plans = <<>> THEN <<>>
  ELSE InsertPlan(SortedPlans(SubSeq(plans, 1, Len(plans) - 1), data_size_mb),
                  plans[Len(plans)], data_size_mb)

\* handle_data_purchase: the plan bought from a catalog that is not empty.
MatchingPlan(plans, data_size_mb) ==
  LET exact == {i \in 1..Len(plans) : PlanSize(plans[i]) = data_size_mb}
  IN  IF exact # {}
      THEN plans[CHOOSE i \in exact : \A j \in exact : i <= j]
      ELSE Head(SortedPlans(plans, data_size_mb))

\* Most plans a catalog of the model holds.
MaxPlans == 3

\* The sizes of the plans a vendor lists, in MB; 0 stands for a plan listed
\* without a size.
PlanSizes == {0, 512, 1024, 1536, 2048}

\* The sizes users ask for, in MB: one the catalogs hold, one near it, one
\* half way between two plans, and one beyond every plan.
RequestedSizes == {1024, 1000, 1280, 3000}

\* The plan at place i of a catalog.
Plan(i, size) ==
  IF size = 0 THEN [plan_id |-> i] ELSE [plan_id |-> i, size_mb |-> size]

\* The catalogs get_data_plans returns.
Catalogs ==
  UNION {{[i \in 1..n |-> Plan(i, sizes[i])] : sizes \in [1..n -> PlanSizes]} :
           n \in 1..MaxPlans}

\* The calls: every catalog with every size asked for.
PlanQueries ==
  {[op |-> "select_plan", returned |-> FALSE, plans |-> plans,
    data_size_mb |-> s] : plans \in Catalogs, s \in RequestedSizes}

\* handle_data_purchase picks the plan.
SelectPlan ==
  /\ query.op = "select_plan" /\ ~query.returned
  /\ query' = [op |-> "select_plan", returned |-> TRUE, plans |-> query.plans,
               data_size_mb |-> query.data_size_mb,
               result |-> MatchingPlan(query.plans, query.data_size_mb)]
  /\ UNCHANGED <<balance, txs, last, flows, users, prefs, reply, tasks>>

\* ------------------------------------------------------------------------
\* Two funded users: ledger calls for either of them.
\* ------------------------------------------------------------------------

\* The store after both users funded their wallets, and the first credit.
FirstFunding ==
  CreditWallet([u \in Users |-> FZero], <<>>, FZero, 1, Funding, NoRef, NoText)

BothFunded ==
  CreditWallet(FirstFunding.balance, FirstFunding.txs, FZero, 2, Funding,
               NoRef, NoText)

\* Most rows the transactions table holds when both users transact.
MaxRows == 3

\* The amounts debited: one the balance covers and one it does not.
UserDebits == {Price, Large}

CreditUser ==
  \E u \in Users :
    /\ Len(txs) < MaxRows
    /\ Commit([op |-> "credit", user |-> u, amount |-> Funding],
              CreditWallet(balance, txs, Seen(u), u, Funding, NoRef, NoText))
    /\ UNCHANGED <<flows, registry>>

DebitUser ==
  \E u \in Users, a \in UserDebits :
    /\ Len(txs) < MaxRows
    /\ Commit([op |-> "debit", user |-> u, amount |-> a],
              DebitWallet(balance, txs, Seen(u), u, a, "airtime", NoRef, NoText))
    /\ UNCHANGED <<flows, registry>>

\* The status the purchase workflows set.
UpdateRow ==
  \E id \in 1..MaxRows, s \in {"completed"} :
    /\ Commit([op |-> "update_status", tx |-> id, status |-> s],
              UpdateTransactionStatus(balance, txs, id, s, <<"set", "response">>,
                                      NoText))
    /\ UNCHANGED <<flows, registry>>

RefundRow ==
  \E id \in 1..MaxRows :
    /\ Commit([op |-> "refund", tx |-> id],
              RefundTransaction(balance, txs, id, "failed"))
    /\ UNCHANGED <<flows, registry>>

\* ------------------------------------------------------------------------
\* Calls that read the stores.
\* ------------------------------------------------------------------------

\* The calls of check_sufficient_balance: a user, and nothing, an amount
\* below the balance, the balance, and an amount above it.
CheckQueries ==
  {[op |-> "check_balance", returned |-> FALSE, user |-> u, amount |-> a] :
     u \in Users \cup {NoUser}, a \in {FZero, Price, Funding, Large}}

\* wallet_service.check_sufficient_balance(db, user_id, required_amount)
\* returns, or raises ValueError for an id without a user.
CheckBalanceCall ==
  /\ query.op = "check_balance" /\ ~query.returned
  /\ query' = [op |-> "check_balance", returned |-> TRUE, user |-> query.user,
               amount |-> query.amount,
               result |-> IF query.user \in Users
                          THEN CheckSufficientBalance(balance[query.user],
                                                      query.amount)
                          ELSE Error("user not found")]
  /\ UNCHANGED <<balance, txs, last, flows, users, prefs, reply, tasks>>

\* The calls of generate_unique_referral_code.
CodeQueries ==
  {[op |-> "referral_code", returned |-> FALSE, draws |-> draws] :
     draws \in Draws}

\* generate_unique_referral_code(db) returns or raises.
GenerateCode ==
  /\ query.op = "referral_code" /\ ~query.returned
  /\ query' = [op |-> "referral_code", returned |-> TRUE,
               draws |-> query.draws,
               result |-> GenerateUniqueReferralCode(users, query.draws)]
  /\ UNCHANGED <<balance, txs, last, flows, users, prefs, reply, tasks>>

Init ==
  /\ balance = [u \in Users |-> FZero]
  /\ txs = <<>>
  /\ last = [call |-> [op |-> "none"], err |-> NoError, tx |-> 0,
             before |-> [u \in Users |-> FZero]]
  /\ flows = <<>>
  /\ users = RegisteredUsers
  /\ prefs = RegisteredPreferences
  /\ reply = NoReply
  /\ tasks = <<>>
  /\ query = NoQuery

Next ==
  \/ Credit
  \/ Debit
  \/ UpdateStatus
  \/ Refund
  \/ PaymentSuccess
  \/ PaymentFailed

Spec == Init /\ [][Next]_vars

InitFlow ==
  /\ balance = [u \in Users |-> FZero]
  /\ txs = <<>>
  /\ last = [call |-> [op |-> "none"], err |-> NoError, tx |-> 0,
             before |-> [u \in Users |-> FZero]]
  /\ flows = [w \in Flows |-> Idle]
  /\ users = RegisteredUsers
  /\ prefs = RegisteredPreferences
  /\ reply = NoReply
  /\ tasks = <<>>
  /\ query = NoQuery

\* The user funds the wallet while the workflows run.
Fund == Deliver({<<Funding, <<"ext", 1>>, Forbill(1)>>})

\* The text messages of the workflows: bill and cable commands with and
\* without a number after them, a greeting and an airtime purchase.
TextMessages ==
  {"nepa", "buy 5000 electricity", "99 naira light",
   "buy 100 electricity for 1234567890", "pay 100 light 9876543210",
   "cable", "dstv", "pay gotv", "pay dstv for 1234567890",
   "subscribe gotv 9876543210", "hi", "buy 100 airtime"}

\* parsed.get(key), with `default` for None.
Get(parsed, key, default) ==
  IF key \in DOMAIN parsed THEN parsed[key] ELSE default

\* handle_electricity_payment on what viewing the meter number as given
\* makes of it.
ElectricityMessage_MeterGiven(f, parsed) ==
  ElectricityRequest(f, [amount |-> Get(parsed, "amount", 0)])

\* handle_electricity_payment(from_number, parsed) from the loaded user to
\* its first await.
ElectricityMessage(f, parsed) ==
  IF Get(parsed, "amount", 0) = 0 THEN Finish(f, "prompt")
  ELSE IF Get(parsed, "meter_number", "") = "" THEN Finish(f, "meter prompt")
  ELSE ElectricityRequest(f, [amount |-> parsed.amount])

\* handle_cable_subscription(from_number, parsed) from the loaded user to
\* its first await.
CableMessage(f, parsed) ==
  IF Get(parsed, "provider", "") = "" THEN Finish(f, "prompt")
  ELSE IF Get(parsed, "smartcard_number", "") = ""
  THEN Finish(f, "smartcard prompt")
  ELSE [f EXCEPT !.pc = "verify"]

\* The workflow kind of a command type, "none" for the commands that only
\* answer.
Kind(command_type) ==
  IF command_type = "cable_tv" THEN "cable"
  ELSE IF command_type \in {"airtime", "data", "electricity"} THEN command_type
  ELSE "none"

\* handle_text_message(from_number, text) once the text is parsed: the
\* handler of the command type runs to its first await.
Dispatch(w, from, parsed) ==
  LET kind == Kind(parsed.command_type)
      u    == GetUserByPhone(from)
      f    == [Idle EXCEPT !.user = u, !.kind = kind,
                           !.seen = IF u = 0 THEN FZero ELSE balance[u]]
  IN  /\ flows' = [flows EXCEPT ![w] =
           IF kind = "none" THEN Finish(f, "answered")
           ELSE IF u = 0 THEN Finish(f, "unregistered")
           ELSE IF kind = "airtime"
           THEN AirtimeRequest([f EXCEPT !.error = Get(parsed, "error", "")],
                               [amount |-> Get(parsed, "amount", 0),
                                error |-> Get(parsed, "error", "")])
           ELSE IF kind = "electricity" THEN ElectricityMessage(f, parsed)
           ELSE IF kind = "cable" THEN CableMessage(f, parsed)
           ELSE [f EXCEPT !.pc = "plans"]]
      /\ query' = [query EXCEPT !.returned = TRUE, !.result = parsed]

\* handle_text_message(from_number, text), for the text of the behaviour.
HandleTextMessage(w) ==
  \E from \in Callers :
    /\ query.op = "message"
    /\ flows[w].pc = "idle"
    /\ Dispatch(w, from, Parse(query.text))
    /\ UNCHANGED <<balance, txs, last, users, prefs, reply, tasks>>

\* Text messages and the workflows they start.
NextMessages ==
  \/ Fund
  \/ \E w \in Flows : HandleTextMessage(w)
  \/ \E w \in Flows : DebitStep(w)
  \/ \E w \in Flows : VendorReturns(w)
  \/ \E w \in Flows : Notify(w)

\* The users send one of the text messages, once or again.
InitMessages ==
  /\ balance = [u \in Users |-> FZero]
  /\ txs = <<>>
  /\ last = [call |-> [op |-> "none"], err |-> NoError, tx |-> 0,
             before |-> [u \in Users |-> FZero]]
  /\ flows = [w \in Flows |-> Idle]
  /\ users = RegisteredUsers
  /\ prefs = RegisteredPreferences
  /\ reply = NoReply
  /\ tasks = <<>>
  /\ query \in {[op |-> "message", returned |-> FALSE, text |-> text,
                   result |-> None] : text \in TextMessages}

SpecMessages == InitMessages /\ [][NextMessages]_vars

NextFlow ==
  \/ Fund
  \/ \E w \in Flows : StartPurchase(w)
  \/ \E w \in Flows : FetchPlans(w)
  \/ \E w \in Flows : Verify(w)
  \/ \E w \in Flows : FetchPackages(w)
  \/ \E w \in Flows : DebitStep(w)
  \/ \E w \in Flows : VendorReturns(w)
  \/ \E w \in Flows : Notify(w)

SpecFlow == InitFlow /\ [][NextFlow]_vars

\* No workflow is between two of its awaits.
Quiet == \A w \in Flows : flows[w].pc \in {"idle", "done"}

\* The workflows start in the order of their numbers.
InTurn(w) == \A v \in Flows : v < w => flows[v].pc # "idle"

\* The purchase workflows and the payment webhooks, one at a time: a
\* workflow starts and an event is delivered when nothing else runs.
NextMoney ==
  \/ Quiet /\ Fund
  \/ Quiet /\ PaymentFailed
  \/ \E w \in Flows : Quiet /\ InTurn(w) /\ StartPurchase(w)
  \/ \E w \in Flows : FetchPlans(w)
  \/ \E w \in Flows : Verify(w)
  \/ \E w \in Flows : FetchPackages(w)
  \/ \E w \in Flows : DebitStep(w)
  \/ \E w \in Flows : VendorReturns(w)
  \/ \E w \in Flows : Notify(w)

SpecMoney == InitFlow /\ [][NextMoney]_vars

\* Registrations and webhook deliveries, one at a time.
NextChat ==
  \/ GetOrCreate
  \/ ReceiveWebhook
  \/ ReceivePayrantWebhook

SpecChat == Init /\ [][NextChat]_vars

\* First messages and the tasks they create; the event loop leaves no
\* created task unrun.
NextAccounts ==
  \/ ReceiveWebhook
  \/ CreateVirtualAccountForUser

SpecAccounts ==
  Init /\ [][NextAccounts]_vars /\ WF_vars(CreateVirtualAccountForUser)

\* One call of a function that writes nothing, with every argument in turn;
\* the balance check finds the wallets empty or funded.
InitCalls ==
  /\ flows = <<>>
  /\ users = RegisteredUsers
  /\ prefs = RegisteredPreferences
  /\ reply = NoReply
  /\ tasks = <<>>
  /\ \/ /\ balance = [u \in Users |-> FZero]
        /\ txs = <<>>
        /\ last = [call |-> [op |-> "none"], err |-> NoError, tx |-> 0,
                   before |-> [u \in Users |-> FZero]]
        /\ query \in ParseQueries \cup RespacedQueries \cup NormalizeQueries
                       \cup NetworkQueries \cup PlanQueries \cup CheckQueries
     \/ /\ balance = FirstFunding.balance
        /\ txs = FirstFunding.txs
        /\ last = [call |-> [op |-> "credit", user |-> 1, amount |-> Funding],
                   err |-> NoError, tx |-> 1,
                   before |-> [u \in Users |-> FZero]]
        /\ query \in CheckQueries

NextCalls ==
  \/ ParseCommand
  \/ NormalizePhoneCall
  \/ DetectNetworkCall
  \/ SelectPlan
  \/ CheckBalanceCall

SpecCalls == InitCalls /\ [][NextCalls]_vars

\* Both users have funded their wallets and transact.
InitUsers ==
  /\ balance = BothFunded.balance
  /\ txs = BothFunded.txs
  /\ last = [call |-> [op |-> "credit", user |-> 2, amount |-> Funding],
             err |-> NoError, tx |-> 2, before |-> FirstFunding.balance]
  /\ flows = <<>>
  /\ users = RegisteredUsers
  /\ prefs = RegisteredPreferences
  /\ reply = NoReply
  /\ tasks = <<>>
  /\ query = NoQuery

NextUsers ==
  \/ CreditUser
  \/ DebitUser
  \/ UpdateRow
  \/ RefundRow

SpecUsers == InitUsers /\ [][NextUsers]_vars

\* User 1 has funded the wallet and bought airtime; the two transactions
\* have their status set and are refunded, in every order.
Purchased ==
  DebitWallet(FirstFunding.balance, FirstFunding.txs, FirstFunding.balance[1],
              1, Price, "airtime", NoRef, NoText)

InitRefunds ==
  /\ balance = Purchased.balance
  /\ txs = Purchased.txs
  /\ last = [call |-> [op |-> "debit", user |-> 1, amount |-> Price],
             err |-> NoError, tx |-> 2, before |-> FirstFunding.balance]
  /\ flows = <<>>
  /\ users = RegisteredUsers
  /\ prefs = RegisteredPreferences
  /\ reply = NoReply
  /\ tasks = <<>>
  /\ query = NoQuery

NextRefunds ==
  \/ UpdateStatus
  \/ Refund

SpecRefunds == InitRefunds /\ [][NextRefunds]_vars

\* Payment events for either user, one delivery at a time.
PaymentFor == Deliver(AccountDeliveries)

NextPayments ==
  \/ PaymentFor
  \/ PaymentFailed

SpecPayments == Init /\ [][NextPayments]_vars

\* Registrations, and a call of the referral code generator among them.
InitCodes ==
  /\ balance = [u \in Users |-> FZero]
  /\ txs = <<>>
  /\ last = [call |-> [op |-> "none"], err |-> NoError, tx |-> 0,
             before |-> [u \in Users |-> FZero]]
  /\ flows = <<>>
  /\ users = RegisteredUsers
  /\ prefs = RegisteredPreferences
  /\ reply = NoReply
  /\ tasks = <<>>
  /\ query \in CodeQueries

NextCodes ==
  \/ GetOrCreate
  \/ GenerateCode

SpecCodes == InitCodes /\ [][NextCodes]_vars


\* ------------------------------------------------------------------------
\* Properties of the ledger (checked under Spec).
\* ------------------------------------------------------------------------

C2_DebitRefundRestores ==
  [][(/\ last.call.op = "debit"
      /\ last.tx # 0
      /\ last'.call.op = "refund"
      /\ last'.call.tx = last.tx)
     => /\ balance' = last.before
        /\ txs'[last.tx].status = "reversed"]_vars

\* C3: a refund of a transaction that is already reversed returns None and
\* changes no balance and no field of any transaction.
C3_SecondRefundNoOp ==
  [][\A id \in 1..Len(txs) :
       (/\ last'.call.op = "refund"
        /\ last'.call.tx = id
        /\ txs[id].status = "reversed")
       => /\ last'.tx = 0
          /\ balance' = balance
          /\ txs' = txs]_vars

\* A transaction was refunded, and a second refund of it has just returned None.
C3_Witness ==
  /\ last.call.op = "refund"
  /\ last.tx = 0
  /\ last.call.tx \in 1..Len(txs)
  /\ txs[last.call.tx].status = "reversed"
  /\ txs[last.call.tx].provider_response = <<"refunded", "failed">>
  /\ txs[last.call.tx].type = "airtime"
  /\ balance = last.before

\* C4: a reference the gateway sends is credited at most once: at most one
\* transaction records a delivery with that reference, and a delivery whose
\* reference a recorded delivery already carries changes no balance and adds
\* no transaction.
C4_CreditedOnce ==
  [][\A r \in Refs :
       /\ Cardinality({i \in 1..Len(txs') :
                         /\ txs'[i].provider_response[1] = "payload"
                         /\ txs'[i].provider_response[2].reference = r}) <= 1
       /\ (/\ last'.call.op = "payment_success"
           /\ last'.call.payload.reference = r
           /\ \E i \in 1..Len(txs) :
                /\ txs[i].provider_response[1] = "payload"
                /\ txs[i].provider_response[2].reference = r)
          => (balance' = balance /\ txs' = txs)]_vars

\* A payment was credited and the same delivery has just come again.
C4_Witness ==
  /\ last.call.op = "payment_success"
  /\ last.err.kind = "already processed"
  /\ \E i \in 1..Len(txs) :
       /\ txs[i].provider_response = <<"payload", last.call.payload>>
       /\ txs[i].reference = last.call.payload.reference
       /\ balance[txs[i].user] = txs[i].amount

\* C5: a transaction that is reversed stays reversed.
C5_ReversedIsFinal ==
  [][\A i \in 1..Len(txs) :
       txs[i].status = "reversed" => txs'[i].status = "reversed"]_vars

\* C6: the status of a transaction changes only from pending, and only to
\* completed, reversed or failed; a completed transaction keeps its status.
C6_OnlyFromPending ==
  [][\A i \in 1..Len(txs) :
       txs'[i].status # txs[i].status
       => /\ txs[i].status = "pending"
          /\ txs'[i].status \in {"completed", "reversed", "failed"}]_vars

\* ------------------------------------------------------------------------
\* Properties of the purchase workflows (checked under SpecFlow).
\* ------------------------------------------------------------------------

\* C7: no committed wallet balance is negative.
C7_BalanceNonNegative == \A u \in Users : ~FLess(balance[u], FZero)

\* Two workflows of one user have both debited, the later one on a balance
\* its session held from before the earlier one's debit.
C7_Witness ==
  \E w1, w2 \in Flows :
    /\ w1 # w2
    /\ flows[w1].user = flows[w2].user
    /\ flows[w1].tx # 0
    /\ flows[w2].tx > flows[w1].tx
    /\ FLess(flows[w2].pre, flows[w2].seen)
    /\ FLess(flows[w2].pre, flows[w2].amount)

\* C8: a workflow debits only when the committed balance covers its amount,
\* so of two concurrent workflows that the balance covers only one, the
\* other is rejected and does not reach the vendor.
C8_OneOfTwoDebits ==
  \A w \in Flows :
    flows[w].tx # 0 => FLeq(flows[w].amount, flows[w].pre)

\* C9: when the vendor call of a workflow returns a failure (nothing else
\* having written the wallet since the workflow loaded it, and the database
\* having accepted the refund), the transaction is reversed and the balance
\* is the one before the debit.
C9_FailureRestores ==
  \A w \in Flows :
    (/\ flows[w].pc \in {"notify", "done"}
     /\ flows[w].vendor = "failure"
     /\ ~flows[w].fault
     /\ flows[w].tx = Len(txs)
     /\ flows[w].seen = flows[w].pre
     /\ \A v \in Flows \ {w} : flows[v].tx = 0)
    => /\ txs[flows[w].tx].status = "reversed"
       /\ balance[flows[w].user] = flows[w].pre

\* C10: a workflow that has debited does not end with its transaction
\* pending: the transaction is completed or reversed.
C10_NeverLeftPending ==
  \A w \in Flows :
    (flows[w].pc = "done" /\ flows[w].tx # 0)
    => txs[flows[w].tx].status \in {"completed", "reversed"}

\* C11: while a vendor purchase call is in flight, and ever after it has
\* returned, the workflow's debit is in the committed transaction table: a
\* transaction of the workflow's user, service and amount, which is still
\* pending for as long as the call is in flight.
C11_VendorAfterDebit ==
  \A w \in Flows :
    LET f == flows[w]
    IN  (f.pc = "vendor" \/ f.vendor # "none") =>
          /\ f.tx \in 1..Len(txs)
          /\ txs[f.tx].user = f.user
          /\ txs[f.tx].type = f.kind
          /\ txs[f.tx].amount = f.amount
          /\ (f.pc = "vendor" => txs[f.tx].status = "pending")

C11_Witness ==
  \E w \in Flows :
    /\ flows[w].pc = "vendor"
    /\ flows[w].tx \in 1..Len(txs)
    /\ txs[flows[w].tx].status = "pending"

\* C12: a workflow whose price is greater than the balance its user had
\* when the request was received (the balance its session loaded) has
\* stopped with the insufficient-balance message, has debited nothing and
\* called no vendor; the step that stops it changes no balance and no
\* transaction.
C12_InsufficientStops ==
  [][\A w \in Flows :
       LET f == flows'[w]
       IN  (f.amount # FZero /\ FLess(f.seen, f.amount)) =>
             /\ f.pc = "done"
             /\ f.outcome = "insufficient"
             /\ f.tx = 0
             /\ f.vendor = "none"
             /\ (flows[w] # f => UNCHANGED <<balance, txs>>)]_vars

C12_Witness ==
  \E w \in Flows :
    /\ flows[w].outcome = "insufficient"
    /\ flows[w].kind = "data"
    /\ FLess(flows[w].seen, flows[w].amount)
    /\ txs # <<>>

\* C13: an airtime workflow whose parsed command carries an amount-bound
\* error answers with that validation error, not with the missing-amount
\* prompt.
C13_BoundErrorReported ==
  \A w \in Flows :
    (flows[w].kind = "airtime" /\ flows[w].user # 0 /\ flows[w].error # "") =>
      flows[w].outcome = "invalid"

\* C14: once the vendor call of a workflow has returned success (no debit,
\* funding or refund having been committed after the workflow's debit), its
\* transaction is completed and carries the vendor's reference, and the
\* balance is the one before the debit minus the amount.
C14_SuccessCompletes ==
  \A w \in Flows :
    LET f == flows[w]
    IN  (/\ f.pc \in {"notify", "done"}
         /\ f.vendor = "success"
         /\ f.tx = Len(txs)
         /\ \A v \in Flows \ {w} : flows[v].vendor # "failure")
        => /\ txs[f.tx].status = "completed"
           /\ txs[f.tx].provider_reference = <<"api", "vendor ref">>
           /\ balance[f.user] = FSub(f.pre, f.amount)

C19_VerifiedBeforeDebit ==
  [][\A w \in Flows :
       LET f == flows'[w]
       IN  f.kind \in {"electricity", "cable"} =>
             /\ (f.pc \in {"processing", "vendor"} \/ f.tx # 0) => f.verified = "ok"
             /\ f.verified = "failed" =>
                   /\ f.pc = "done"
                   /\ f.tx = 0
                   /\ (flows[w] # f => UNCHANGED <<balance, txs>>)]_vars

C19_Witness ==
  \E w, v \in Flows :
    /\ flows[w].kind = "electricity"
    /\ flows[w].tx # 0
    /\ flows[w].verified = "ok"
    /\ flows[v].kind \in {"electricity", "cable"}
    /\ flows[v].verified = "failed"
    /\ flows[v].outcome = "unverified"

\* C18: whatever a webhook endpoint was sent, and also when an exception
\* was raised while it was processed, the endpoint answers with a success
\* acknowledgment (HTTP 200).
C18_AlwaysAcknowledged ==
  reply.op \in {"whatsapp", "payrant"} => reply.status = 200

C22_AirtimeAmountBounds ==
  \A a \in Amounts :
    (query.op = "parse" /\ query.returned /\ query.message = AirtimeMessage(a))
      => /\ query.result.command_type = "airtime"
         /\ IF 50 <= a /\ a <= 50000
            THEN /\ "amount" \in DOMAIN query.result
                 /\ query.result.amount = a
                 /\ query.result.confidence = "high"
            ELSE /\ query.result.confidence = "low"
                 /\ "error" \in DOMAIN query.result
                 /\ "amount" \notin DOMAIN query.result

\* C23: a message that names airtime without an amount is classified as
\* AIRTIME with no amount and no error.  Fails: every airtime pattern asks
\* for digits, so the message matches none and comes back UNKNOWN.
C23_AirtimeWithoutAmount ==
  (query.op = "parse" /\ query.returned
     /\ query.message \in {"buy airtime", "airtime"})
    => /\ query.result.command_type = "airtime"
       /\ "amount" \notin DOMAIN query.result
       /\ "error" \notin DOMAIN query.result

\* The command type, the parameters and the confidence of a parse result.
Settings(result) ==
  [k \in DOMAIN result \ {"original_message"} |-> result[k]]

\* C24: a message written in another letter case or with space added before
\* or after it parses to the same command type, parameters and confidence
\* as the message itself.
C24_CaseAndSpaceInsensitive ==
  (query.op = "parse" /\ query.returned)
    => Settings(query.result) = Settings(Parse(query.message))

C24_Witness ==
  /\ query.op = "parse" /\ query.returned
  /\ query.message = "buy 100 airtime for 08012345678"
  /\ query.text = "\tBUY 100 AIRTIME FOR 08012345678 "
  /\ query.result.amount = 100
  /\ query.result.phone_number = "2348012345678"

\* C25: normalisation goes by the digits of the input alone: 13 digits
\* starting with 234, 11 starting with 0, or 10 digits give the 13-digit
\* number made of 234 and the last ten digits; everything else fails.
C25_PhoneNormalised ==
  (query.op = "normalize_phone" /\ query.returned)
    => LET d == query.digits
           wellFormed ==
             \/ Len(d) = 13 /\ SubSeq(d, 1, 3) = "234"
             \/ Len(d) = 11 /\ SubSeq(d, 1, 1) = "0"
             \/ Len(d) = 10
       IN  IF wellFormed
           THEN /\ Len(query.result) = 13
                /\ SubSeq(query.result, 1, 3) = "234"
                /\ SubSeq(query.result, 4, 13) = SubSeq(d, Len(d) - 9, Len(d))
           ELSE query.result = NoPhone

C25_Witness ==
  /\ query.op = "normalize_phone" /\ query.returned
  /\ query.phone = "080-12345678"
  /\ query.result = "2348012345678"

\* C30: a data command "<size><unit> <network> for|to <phone>" parses to a
\* result that holds the phone number in the 234 form.  Fails: the pattern
\* without a phone number is tried first and matches the start of the
\* message, so no group holds the number.
C30_DataRecipientParsed ==
  \A c \in {<<"1gb mtn for 08012345678", "2348012345678">>,
            <<"2gb glo to 2348012345678", "2348012345678">>,
            <<"500mb airtel for 08021234567", "2348021234567">>} :
    (query.op = "parse" /\ query.returned /\ query.message = c[1])
      => /\ query.result.command_type = "data"
         /\ "phone_number" \in DOMAIN query.result
         /\ query.result.phone_number = c[2]

\* ------------------------------------------------------------------------
\* The network of an airtime purchase and the plan of a data purchase.
\* ------------------------------------------------------------------------

\* C28: the network of an airtime purchase that names none is the table's
\* entry for the recipient's local 4-digit prefix, for a recipient in the
\* local form and in the 234 form alike, and MTN only when the table has no
\* entry.  Fails in the 234 form: the three characters after 234 are looked
\* up, and no key of the table has three characters.
C28_NetworkFromPrefix ==
  (query.op = "detect_network" /\ query.returned)
    => LET local == IF SubSeq(query.phone, 1, 3) = "234"
                    THEN "0" \o SubSeq(query.phone, 4, 6)
                    ELSE SubSeq(query.phone, 1, 4)
       IN  query.result = IF local \in DOMAIN NetworkMap
                          THEN NetworkMap[local] ELSE "MTN"

\* C29: the plan selected from a catalog is the first plan of the size asked
\* for if there is one, and otherwise the first of the plans whose size is
\* nearest to it.
C29_NearestPlan ==
  (query.op = "select_plan" /\ query.returned
     /\ \A i \in 1..Len(query.plans) : "size_mb" \in DOMAIN query.plans[i])
    => LET plans == query.plans
           s     == query.data_size_mb
           Far(i) == IF plans[i].size_mb >= s THEN plans[i].size_mb - s
                     ELSE s - plans[i].size_mb
           i     == query.result.plan_id
       IN  /\ i \in 1..Len(plans)
           /\ query.result = plans[i]
           /\ \A j \in 1..Len(plans) :
                /\ plans[j].size_mb = s => j >= i /\ plans[i].size_mb = s
                /\ Far(j) >= Far(i)
                /\ Far(j) = Far(i) => j >= i

\* A size between two plans equally near: the earlier one, which is the
\* larger, is taken.
C29_Witness ==
  /\ query.op = "select_plan" /\ query.returned
  /\ query.data_size_mb = 1280
  /\ query.plans = <<Plan(1, 2048), Plan(2, 1536), Plan(3, 1024)>>
  /\ query.result = Plan(2, 1536)

\* ------------------------------------------------------------------------
\* Referral codes, the wallets of two users, and the balance check.
\* ------------------------------------------------------------------------

\* C21: generate_unique_referral_code ends within 10 attempts, returning a
\* code no user holds (the first such code drawn) or raising after the
\* tenth attempt; and whatever users are created, no two of them hold the
\* same referral code.
C21_UniqueReferralCodes ==
  [][/\ \A i, j \in 1..Len(users') :
          users'[i].referral_code = users'[j].referral_code => i = j
     /\ (query'.op = "referral_code" /\ query'.returned /\ ~query.returned)
          => LET g    == query'.result
                 held == {users[i].referral_code : i \in 1..Len(users)}
             IN  /\ g.attempts \in 1..10
                 /\ \A n \in 1..(g.attempts - 1) : query'.draws[n] \in held
                 /\ IF g.err = NoError
                    THEN g.code \notin held /\ g.code = query'.draws[g.attempts]
                    ELSE g.attempts = 10 /\ query'.draws[10] \in held]_vars

\* Four users, and a call that found a free code at its last attempt.
C21_Witness ==
  /\ Len(users) = Len(RegisteredUsers) + 2
  /\ query.op = "referral_code" /\ query.returned
  /\ query.result.err = NoError
  /\ query.result.attempts = 10

\* C26: credit, debit, refund and update_status for one user's wallet or
\* transaction leave the balance and the transactions of every other user
\* as they were.
C26_OtherUsersUntouched ==
  [][LET call  == last'.call
         owner == IF call.op \in {"credit", "debit"} THEN call.user
                  ELSE IF call.tx \in 1..Len(txs) THEN txs[call.tx].user
                  ELSE 0
         Rows(txl, v) == {<<i, txl[i]>> : i \in {k \in 1..Len(txl) : txl[k].user = v}}
     IN  \A v \in Users :
           v # owner => balance'[v] = balance[v] /\ Rows(txs', v) = Rows(txs, v)]_vars

\* User 1's debit was refunded while user 2 holds the funded balance.
C26_Witness ==
  /\ last.call.op = "refund" /\ last.tx = 3
  /\ txs[3].user = 1 /\ txs[3].status = "reversed"
  /\ txs[2].user = 2 /\ balance[2] = Funding

\* C27: check_sufficient_balance changes nothing and returns sufficient =
\* (balance >= amount), current = balance, required = amount and shortfall
\* = max(0, amount - balance).
C27_BalanceCheckReads ==
  [][(query'.op = "check_balance" /\ query'.returned /\ query'.user \in Users)
       => LET b == balance[query'.user]
              a == query'.amount
              r == query'.result
          IN  /\ UNCHANGED <<balance, txs, users, prefs>>
              /\ r.has_sufficient_balance = ~FLess(b, a)
              /\ r.current_balance = b
              /\ r.required_amount = a
              /\ r.shortfall = IF FLess(b, a) THEN FSub(a, b) ELSE FZero]_vars

\* A funded wallet that does not cover the amount asked.
C27_Witness ==
  /\ query.op = "check_balance" /\ query.returned
  /\ query.user = 1 /\ query.amount = Large
  /\ balance[1] = Funding
  /\ query.result.has_sufficient_balance = FALSE
  /\ query.result.shortfall = FSub(Large, Funding)

\* C31: a message with one of its inner runs of space written longer parses
\* to the same command type, parameters and confidence as the message.
C31_InnerSpaceIrrelevant ==
  (query.op = "parse_respaced" /\ query.returned)
    => Settings(query.result) = Settings(Parse(query.message))

\* C33: whether a notification is sent or not makes no difference to the
\* money: the step that follows the "processing" notice leaves the balances
\* and the transactions as the debit leaves them, and the step that follows
\* the closing notice leaves them as they are.
C33_NoticesLeaveMoneyAlone ==
  [][\A w \in Flows :
       LET f   == flows[w]
           out == DebitWallet(balance, txs, f.seen, f.user, f.amount, f.kind,
                              NoRef, NoText)
       IN  /\ (f.pc = "processing" /\ flows'[w].pc # "processing")
                => (balance' = out.balance /\ txs' = out.txs)
           /\ (f.pc = "notify" /\ flows'[w].pc # "notify")
                => (balance' = balance /\ txs' = txs)]_vars

\* C37: two workflows that posted a purchase for two different debit
\* transactions posted them under different request ids.
C37_DistinctRequestIds ==
  \A v \in Flows, w \in Flows :
    (/\ v # w
     /\ flows[v].request_id # ""
     /\ flows[w].request_id # ""
     /\ flows[v].tx # flows[w].tx)
      => flows[v].request_id # flows[w].request_id

\* C38: of the deliveries of the payment without a reference at most one is
\* recorded as a credit.
C38_UnreferencedCreditedOnce ==
  Cardinality({i \in 1..Len(txs) :
                 /\ txs[i].type = "wallet_funding"
                 /\ txs[i].provider_response[1] = "payload"
                 /\ txs[i].provider_response[2].reference = NoRef}) <= 1

\* C34: the ledger is append-only: every step keeps every transaction, with
\* its user, amount, type and reference, and adds transactions at the end.
C34_AppendOnly ==
  [][/\ Len(txs') >= Len(txs)
     /\ \A i \in 1..Len(txs) :
          /\ txs'[i].user = txs[i].user
          /\ txs'[i].amount = txs[i].amount
          /\ txs'[i].type = txs[i].type
          /\ txs'[i].reference = txs[i].reference]_vars

\* A purchase has been refunded after both fundings: its row is still
\* there, reversed, with its amount.
C34_Witness ==
  /\ Len(txs) = MaxRows
  /\ \E i \in 1..Len(txs) :
       /\ txs[i].type = "airtime"
       /\ txs[i].status = "reversed"
       /\ txs[i].provider_response = <<"refunded", "failed">>
       /\ txs[i].amount = Price

\* C35: the refunds credit the amount of a transaction at most once.  Under
\* SpecRefunds nothing but a refund changes the balance, so that the balance
\* of user 1 is the balance after the purchase with the purchase, the
\* funding, or both credited back once.
C35_RefundedAtMostOnce ==
  LET spent == Purchased.balance[1]
  IN  balance[1] \in {spent, FAdd(spent, Price), FAdd(spent, Funding),
                      FAdd(FAdd(spent, Price), Funding),
                      FAdd(FAdd(spent, Funding), Price)}

\* C32: a delivery of the payment event credits nobody but the user whose
\* account reference it carries, and it leaves every balance and the
\* transactions as they are when it carries the reference of a user id
\* nobody has, no reference, a reference that is not written
\* FORBILL-{id}-..., or an amount that is not above zero.
C32_CreditsEncodedUser ==
  [][last'.call.op = "payment_success"
       => LET payload == last'.call.payload
          IN  /\ \A u \in Users :
                   payload.account = Forbill(u)
                     => /\ \A v \in Users \ {u} : balance'[v] = balance[v]
                        /\ \A i \in (Len(txs) + 1)..Len(txs') : txs'[i].user = u
                        /\ SubSeq(txs', 1, Len(txs)) = txs
              /\ (\/ payload.account \notin {Forbill(u) : u \in Users}
                  \/ FLeq(payload.amount, FZero))
                   => (balance' = balance /\ txs' = txs)]_vars

\* A payment for user 2 has been credited to user 2, after one for user 1.
C32_Witness ==
  /\ last.call.op = "payment_success"
  /\ last.call.payload.account = Forbill(2)
  /\ last.err = NoError
  /\ last.tx = 2
  /\ txs[2].user = 2
  /\ txs[1].user = 1
  /\ balance[2] = Funding
  /\ balance[1] = Funding

\* C40: after a new user is registered by a first message and the task is
\* created, the task ends, and when the payment gateway was able to create
\* the account the user's row holds the virtual-account number and name.
C40_AccountEventuallyStored ==
  \A t \in 1..Cardinality(Phones) :
    (Len(tasks) >= t)
      ~> (/\ Len(tasks) >= t
          /\ tasks[t].pc = "done"
          /\ tasks[t].gateway = "able" =>
                /\ users[tasks[t].user].virtual_account_number # NoDetail
                /\ users[tasks[t].user].virtual_account_name # NoDetail)

\* C39: handling a text message that parses as an electricity or a cable
\* command ends at once: it debits no wallet, creates no transaction and
\* leaves no workflow on its way to the vendor.
C39_BillMessagesBuyNothing ==
  [][\A w \in Flows :
       (/\ flows[w].pc = "idle" /\ flows'[w].pc # "idle"
        /\ query'.result.command_type \in {"electricity", "cable_tv"})
         => /\ flows'[w].pc = "done"
            /\ flows'[w].tx = 0
            /\ flows'[w].vendor = "none"
            /\ flows'[w].request_id = ""
            /\ balance' = balance
            /\ txs' = txs]_vars

\* The funded user has asked for electricity for a meter, at a price the
\* wallet covers, and was asked for the meter number.
C39_Witness ==
  /\ query.op = "message"
  /\ query.text = "buy 100 electricity for 1234567890"
  /\ \E w \in Flows :
       /\ flows[w].outcome = "meter prompt"
       /\ flows[w].user = 1
       /\ flows[w].seen = Funding

\* The sum of the amounts of the first n transactions that belong to user u
\* and have a type of `types` and a status of `statuses`.
RECURSIVE Total(_, _, _, _)
Total(u, types, statuses, n) ==
  IF n = 0 THEN FZero
  ELSE LET rest == Total(u, types, statuses, n - 1)
       IN  IF /\ txs[n].user = u
              /\ txs[n].type \in types
              /\ txs[n].status \in statuses
           THEN FAdd(rest, txs[n].amount)
           ELSE rest

\* C36: the balance of every user is the sum of the user's completed wallet
\* fundings less the sum of the user's pending and completed purchases.
C36_BalanceIsLedgerSum ==
  \A u \in Users :
    balance[u] =
      FSub(Total(u, {"wallet_funding"}, {"completed"}, Len(txs)),
           Total(u, {"airtime", "data", "electricity", "cable_tv"},
                 {"pending", "completed"}, Len(txs)))

====
